---- MODULE Spec2Model ----
(***************************************************************************)
(* samsung-mtp-tool: MTP command/response framing over a USB bulk pipe.    *)
(*                                                                         *)
(*   - the packet codec of src/lib/mtp-utils.ts (pure functions),          *)
(*   - the native module UsbMtpModule.kt: connection binding, transaction  *)
(*     counter, sendMtpCommand, closeConnection, the detach receiver,      *)
(*   - the hook src/hooks/use-usb-device.ts and the send paths of the      *)
(*     home screen src/app/(tabs)/index.tsx.                               *)
(*                                                                         *)
(* null is written 0 for devices, connections, interfaces and endpoints.   *)
(* Three specifications share the variables:                               *)
(*   CodecSpec  the pure functions applied to inputs drawn by Init,        *)
(*   Spec       the native module, its two threads and the USB host,       *)
(*   HookSpec   the hook and the screen over the native binding.           *)
(***************************************************************************)
EXTENDS Integers, Sequences, FiniteSets, TLC

(***************************************************************************)
(* Bounds of the model                                                     *)
(***************************************************************************)
\* longest buffer handed to parseMtpResponse
MaxBuf == 20

(***************************************************************************)
(* Fixed-width little-endian fields                                        *)
(*                                                                         *)
(* An unsigned 32-bit value is the record [hi, lo] of its 16-bit halves:   *)
(* the model checker's integers are 32-bit signed and cannot hold 2^32-1.  *)
(***************************************************************************)
Pow2_16 == 65536

U32(hi, lo) == [hi |-> hi, lo |-> lo]

\* the unsigned 32-bit value of an integer: its low 32 bits (two's complement)
ToU32(v) == U32((v \div Pow2_16) % Pow2_16, v % Pow2_16)

\* DataView.getUint16(off, true) / ByteBuffer.getShort, off counted from 0
GetUint16(data, off) == data[off + 1] + 256 * data[off + 2]

\* DataView.getUint32(off): without the littleEndian flag the high half comes first
GetUint32BigEndian(data, off) ==
    U32(data[off + 2] + 256 * data[off + 1], data[off + 4] + 256 * data[off + 3])

\* DataView.getUint32(off, true)
GetUint32(data, off) == U32(GetUint16(data, off + 2), GetUint16(data, off))

\* DataView.setUint16(_, v, true) / ByteBuffer.putShort: the low 16 bits
PutUint16(v) == LET u == v % Pow2_16 IN <<u % 256, u \div 256>>

\* DataView.setUint32(_, u, true) / ByteBuffer.putInt: four bytes, low first
PutUint32(u) == PutUint16(u.lo) \o PutUint16(u.hi)

(***************************************************************************)
(* src/lib/mtp-utils.ts: parseMtpResponse                                  *)
(***************************************************************************)
MTP_HEADER_LENGTH == 12

\* Math.floor((length - paramsStart) / 4) for length = hi * 65536 + lo:
\* 65536 is a multiple of 4, so the quotient is hi * 16384 + floor((lo-12)/4)
\* (\div rounds down, as Math.floor does; negative when length < 12).
ParamsCount(length) ==
    length.hi * 16384 + ((length.lo - MTP_HEADER_LENGTH) \div 4)

\* The loop of lines 292-294: view.getUint32(paramsStart + i*4, true) for
\* i = 0 .. paramsCount-1.  DataView.getUint32 throws a RangeError when
\* offset + 4 > byteLength; the exception leaves the loop and the function.
RECURSIVE ReadParams(_, _, _, _)
ReadParams(data, i, paramsCount, acc) ==
    IF i >= paramsCount
    THEN [threw |-> FALSE, params |-> acc]
    ELSE IF MTP_HEADER_LENGTH + 4 * i + 4 > Len(data)
         THEN [threw |-> TRUE, params |-> acc]
         ELSE ReadParams(data, i + 1, paramsCount,
                         Append(acc, GetUint32(data, MTP_HEADER_LENGTH + 4 * i)))

NoContainer == [tag |-> "null", length |-> U32(0, 0), type |-> 0, code |-> 0,
                transactionId |-> U32(0, 0), params |-> <<>>]

\* a test that also turns away a buffer of exactly twelve bytes
TooShortInclusive(data) == Len(data) <= MTP_HEADER_LENGTH

\* if (data.length < 12)
TooShort(data) == Len(data) < MTP_HEADER_LENGTH

parseMtpResponse(data) ==
    IF TooShort(data)
    THEN NoContainer
    ELSE LET length == GetUint32(data, 0)
             type == GetUint16(data, 4)
             code == GetUint16(data, 6)
             transactionId == GetUint32(data, 8)
             rd == ReadParams(data, 0, ParamsCount(length), <<>>)
         IN  [tag |-> IF rd.threw THEN "RangeError" ELSE "container",
              length |-> length, type |-> type, code |-> code,
              transactionId |-> transactionId,
              params |-> IF rd.threw THEN <<>> ELSE rd.params]

(***************************************************************************)
(* Inputs of the codec specification                                       *)
(***************************************************************************)
\* values of the totalLength field a device may put in a frame
LengthSamples ==
    {U32(0, n) : n \in {0, 5, 11, 12, 13, 15, 16, 19, 20, 24, 28}}
        \cup {U32(1, 12), U32(65535, 65535)}
CodeSamples == {8193, 8197}

\* a frame of n bytes: header fields, then bytes that differ by position
Frame(n, length, code) ==
    LET full == PutUint32(length) \o PutUint16(3) \o PutUint16(code)
                    \o PutUint32(U32(0, 1))
                    \o [i \in 1..(IF n > 12 THEN n - 12 ELSE 0) |-> (37 * i + 11) % 256]
    IN  SubSeq(full, 1, n)

(***************************************************************************)
(* UsbMtpModule.kt: buildMtpCommandPacket                                  *)
(***************************************************************************)
\* for (param in params) buffer.putInt(param)
RECURSIVE KtPutParams(_)
KtPutParams(params) ==
    IF params = <<>> THEN <<>>
    ELSE PutUint32(ToU32(Head(params))) \o KtPutParams(Tail(params))

\* a faulty variant: the opcode is clamped to the largest Short
KtToShortClamped(v) == IF v > 32767 THEN 32767 ELSE v

\* Int.toShort(), line 518: the low 16 bits as a signed value
KtToShort(v) ==
    LET u == v % Pow2_16 IN IF u >= 32768 THEN u - Pow2_16 ELSE u

\* a buffer left in ByteBuffer's default order: the header fields high byte
\* first
KtBuildMtpCommandPacketBigEndian(opcode, txId, params) ==
    LET Rev(b) == [i \in 1..Len(b) |-> b[Len(b) + 1 - i]]
    IN  Rev(PutUint32(ToU32(12 + 4 * Len(params))))
            \o Rev(PutUint16(1))
            \o Rev(PutUint16(KtToShort(opcode)))
            \o Rev(PutUint32(ToU32(txId)))
            \o KtPutParams(params)

\* ByteBuffer little-endian: putInt(totalSize), putShort(COMMAND),
\* putShort(opcode.toShort()), putInt(transactionId), the parameters
KtBuildMtpCommandPacket(opcode, txId, params) ==
    PutUint32(ToU32(12 + 4 * Len(params)))
        \o PutUint16(1)
        \o PutUint16(KtToShort(opcode))
        \o PutUint32(ToU32(txId))
        \o KtPutParams(params)

\* a faulty variant: the counter is never advanced
KtIntIncStuck(v) == v

\* Kotlin Int is 32-bit: transactionId++ wraps from 2^31-1 to -2^31
KtIntInc(v) == IF v = 2147483647 THEN (0 - 2147483647) - 1 ELSE v + 1

\* transactionId - 1 (line 420), wrapping the other way
KtIntDec(v) == IF v = (0 - 2147483647) - 1 THEN 2147483647 ELSE v - 1

(***************************************************************************)
(* The USB host: devices, their descriptors                                *)
(***************************************************************************)
DeviceIds == {1, 2, 3}

Ep(type, dir) == [type |-> type, dir |-> dir]

\* device 1: an MTP (still image, class 6) interface with bulk IN and OUT;
\* device 2: a mass-storage-class interface with a bulk OUT endpoint only;
\* device 3: a HID interface, no bulk endpoint at all.
Descriptor(d) ==
    CASE d = 1 -> << [cls |-> 6, eps |-> <<Ep("bulk", "in"), Ep("bulk", "out"),
                                          Ep("interrupt", "in")>>] >>
      [] d = 2 -> << [cls |-> 8, eps |-> <<Ep("bulk", "out")>>] >>
      [] OTHER -> << [cls |-> 3, eps |-> <<Ep("interrupt", "in")>>] >>

\* an endpoint object: interface i, endpoint j (both from 1); 0 is null
EpRef(i, j) == 10 * i + j

\* lines 244-253: the endpoints of one interface, a later bulk endpoint of a
\* direction replacing an earlier one
RECURSIVE ScanFirst(_, _, _, _, _)
ScanFirst(eps, i, j, out, in) ==
    IF j > Len(eps) THEN [out |-> out, in |-> in]
    ELSE IF eps[j].type = "bulk" /\ eps[j].dir = "out"
         THEN ScanFirst(eps, i, j + 1, EpRef(i, j), in)
    ELSE IF eps[j].type = "bulk" /\ eps[j].dir = "in"
         THEN ScanFirst(eps, i, j + 1, out, EpRef(i, j))
    ELSE ScanFirst(eps, i, j + 1, out, in)

\* lines 237-260: the first interface of class 6 or 0xFF after which both
\* endpoints are set; outEndpoint and inEndpoint carry over between interfaces
RECURSIVE FindMtpInterface(_, _, _, _)
FindMtpInterface(desc, i, out, in) ==
    IF i > Len(desc) THEN [intf |-> 0, out |-> out, in |-> in]
    ELSE IF desc[i].cls = 6 \/ desc[i].cls = 255
         THEN LET r == ScanFirst(desc[i].eps, i, 1, out, in)
              IN  IF r.out # 0 /\ r.in # 0
                  THEN [intf |-> i, out |-> r.out, in |-> r.in]
                  ELSE FindMtpInterface(desc, i + 1, r.out, r.in)
         ELSE FindMtpInterface(desc, i + 1, out, in)

\* lines 269-278: the first bulk endpoint of each direction of one interface
RECURSIVE ScanAny(_, _, _, _, _)
ScanAny(eps, i, j, out, in) ==
    IF j > Len(eps) THEN [out |-> out, in |-> in]
    ELSE IF eps[j].type = "bulk" /\ eps[j].dir = "out" /\ out = 0
         THEN ScanAny(eps, i, j + 1, EpRef(i, j), in)
    ELSE IF eps[j].type = "bulk" /\ eps[j].dir = "in" /\ in = 0
         THEN ScanAny(eps, i, j + 1, out, EpRef(i, j))
    ELSE ScanAny(eps, i, j + 1, out, in)

\* lines 263-285: any interface with a bulk OUT endpoint; both endpoints are
\* reset at each interface and keep the last interface's values at the end
RECURSIVE FindAnyInterface(_, _, _, _)
FindAnyInterface(desc, i, out, in) ==
    IF i > Len(desc) THEN [intf |-> 0, out |-> out, in |-> in]
    ELSE LET r == ScanAny(desc[i].eps, i, 1, 0, 0)
         IN  IF r.out # 0
             THEN [intf |-> i, out |-> r.out, in |-> r.in]
             ELSE FindAnyInterface(desc, i + 1, r.out, r.in)

\* lines 232-285: mtpInterface, outEndpoint, inEndpoint of a device
FindInterface(d) ==
    LET first == FindMtpInterface(Descriptor(d), 1, 0, 0)
    IN  IF first.intf # 0 THEN first
        ELSE FindAnyInterface(Descriptor(d), 1, first.out, first.in)

(***************************************************************************)
(* UsbMtpModule.kt and the hook: the result of one sendMtpCommand          *)
(***************************************************************************)
MTP_RESPONSE_OK == 8193

\* a faulty variant: an empty write is reported as sent
KtSuccessFlagNonNegative(bytesSent) == bytesSent >= 0

\* putBoolean("success", bytesSent > 0), line 422
KtSuccessFlag(bytesSent) == bytesSent > 0

\* a faulty variant: a short or missing response is given code 0
KtResponseCodeNoSentinel(bytesRead, responseBuffer) ==
    IF bytesRead >= 12 THEN GetUint16(responseBuffer, 6) ELSE 0

\* lines 400-411: the response code of the bytes read, -1 when fewer than 12
KtResponseCode(bytesRead, responseBuffer) ==
    IF bytesRead > 0 /\ bytesRead >= 12
    THEN GetUint16(responseBuffer, 6) % Pow2_16
    ELSE -1

\* a faulty variant: the binding is not checked
KtNotConnectedUnchecked(connection, outEndpoint) == FALSE

\* a faulty variant: a failed write goes on to the read
KtWriteFailedIgnored(bytesSent) == FALSE

\* if (connection == null || outEndpoint == null), line 353
KtNotConnected(connection, outEndpoint) == connection = 0 \/ outEndpoint = 0

\* if (bytesSent < 0), line 379
KtWriteFailed(bytesSent) == bytesSent < 0

\* use-usb-device.ts line 281
HookIsSuccess(result) ==
    result.success
        /\ (result.responseCode = -1 \/ result.responseCode = MTP_RESPONSE_OK)

NoResult == [op |-> "", kind |-> "none", code |-> "", bytesSent |-> 0,
             opcode |-> 0, transactionId |-> 0, responseCode |-> 0,
             success |-> FALSE, hasData |-> FALSE]

\* promise.reject(code, message)
Rejected(op, code) == [NoResult EXCEPT !.op = op, !.kind = "reject", !.code = code]

\* promise.resolve(value) of openConnection and closeConnection
Resolved(op) == [NoResult EXCEPT !.op = op, !.kind = "resolve", !.success = TRUE]

\* lines 417-427: the map sendMtpCommand resolves with
SendResult(bytesSent, opcode, txId, responseCode, hasData) ==
    [op |-> "send", kind |-> "resolve", code |-> "", bytesSent |-> bytesSent,
     opcode |-> opcode, transactionId |-> KtIntDec(txId),
     responseCode |-> responseCode, success |-> KtSuccessFlag(bytesSent),
     hasData |-> hasData]

(***************************************************************************)
(* Bounds and inputs of the native module's specification                  *)
(***************************************************************************)
\* connection objects alive or referenced at one time
MaxConns == 2
\* sends on one connection
MaxTx == 2
\* devices plugged in at one time
MaxAttached == 1

ConnIds == 1..MaxConns
\* 0xFE01 is a preset, 0x1001 lies in a curated range and is no preset,
\* 0x0001 lies in no range
Opcodes == {65025, 4097, 1}
ParamLists == {<<>>, <<7>>}
\* what the device may answer: a 5-byte fragment, a 12-byte response
\* container with code OK, one with code OperationNotSupported
ResponseFrames ==
    {Frame(5, U32(0, 12), 8193), Frame(12, U32(0, 12), 8193),
     Frame(12, U32(0, 12), 8197)}

VARIABLES
    cpc,        \* codec run: "input" | "parsed"
    cdata,      \* the bytes handed to parseMtpResponse
    cres,       \* what parseMtpResponse returned (or that it threw)
    \* the USB host
    attached,           \* usbManager.deviceList: ids of the plugged devices
    granted,            \* devices the user granted USB permission for
    connDev,            \* connection object -> its device, 0 once closed
    connLive,           \* connection object -> its device is still plugged
    \* fields of UsbMtpModule (lines 43-48)
    currentDevice,
    currentConnection,
    currentInterface,
    bulkOutEndpoint,
    bulkInEndpoint,
    transactionId,
    \* the native-modules thread, which runs every @ReactMethod in turn
    nmPc,               \* "idle", or the place inside the running method
    nmL,                \* its locals, and what the call did so far
    \* the main thread, which runs the broadcast receivers
    mainPc,
    mainDev,            \* the device of the intent being handled
    closePc,            \* thread -> next line of closeConnection, 0 outside it
    invalidated,        \* invalidate() was called
    \* history
    everOpened,         \* an openConnection got as far as binding
    closeRan,           \* closeConnection returned, no open resolved since
    sendsSinceOpen,     \* sends past the NOT_CONNECTED check since the open
    failedSinceOpen,    \* a send was rejected TRANSFER_FAILED since the open
    closedDuringSend    \* the connection was closed under the running send

codecVars == <<cpc, cdata, cres>>
hostVars == <<attached, granted, connDev, connLive>>
bindingVars == <<currentDevice, currentConnection, currentInterface,
                 bulkOutEndpoint, bulkInEndpoint>>
threadVars == <<nmPc, nmL, mainPc, mainDev, closePc, invalidated>>
historyVars == <<everOpened, closeRan, sendsSinceOpen, failedSinceOpen,
                 closedDuringSend>>
nativeVars == <<hostVars, bindingVars, transactionId, threadVars, historyVars>>

VARIABLES
    \* the hook useUsbDevice (use-usb-device.ts lines 88-98)
    mounted,                \* mountedRef.current
    isNativeAvailable,
    device,                 \* deviceId of the selected device, 0 for null
    hasPermission,
    isRequestingPermission,
    isConnected,
    isSending,
    commandLog,             \* newest first: [id, status]
    \* the home screen (index.tsx lines 483-485)
    manualOpcode,
    selectedPreset,         \* code of the preset shown in the modal, 0 for null
    \* the async calls of requestPermission, connect and sendCommand
    calls

VARIABLES
    \* the hook's device list and its event listeners (lines 90, 100-165)
    availableDevices,       \* deviceIds, in list order
    effectDevice,           \* `device` as the effect's listeners captured it
    deviceEvents,           \* emitted onDeviceAttached/onDeviceDetached
                            \* events not yet handled by the listeners
    scans,                  \* results of getConnectedDevices on their way back
    \* USB permission in the native module (UsbMtpModule.kt lines 49-76, 170-206)
    permissionPromise,      \* the field: 0 for null, else the promise held
    promiseState,           \* promise -> "none" | "pending" | how it settled
    promiseSettles,         \* promise -> times resolve or reject was called
    permDialogs,            \* permission dialogs the user has not answered
    permBroadcasts          \* answers broadcast, not yet received

listVars == <<availableDevices, effectDevice, deviceEvents, scans>>
permVars == <<permissionPromise, promiseState, promiseSettles, permDialogs,
              permBroadcasts>>

\* the JavaScript side, with the permission bookkeeping that its promises
\* hang on
hookVars == <<mounted, isNativeAvailable, device, hasPermission,
              isRequestingPermission, isConnected, isSending, commandLog,
              manualOpcode, selectedPreset, calls, listVars, permVars>>

vars == <<codecVars, nativeVars, hookVars>>

\* promises of native requestPermission calls that one run may create
MaxRequests == 3
PromiseIds == 1..MaxRequests

\* nothing listed, nothing emitted, no scan under way; the effect ran in the
\* first render, where device is null (lines 89, 101-148)
ListIdle ==
    /\ availableDevices = <<>>
    /\ effectDevice = 0
    /\ deviceEvents = <<>>
    /\ scans = <<>>

\* private var permissionPromise: Promise? = null, no request made
PermIdle ==
    /\ permissionPromise = 0
    /\ promiseState = [p \in PromiseIds |-> "none"]
    /\ promiseSettles = [p \in PromiseIds |-> 0]
    /\ permDialogs = <<>>
    /\ permBroadcasts = <<>>

\* calls of the hook's async functions that one run may make
MaxCalls == 2
CallIds == 1..MaxCalls

\* a call not made yet.  kind: which function the screen called; pc: the
\* await it is suspended at; ret: what it returned; cleared: clearLog ran
\* after its log entry was written; settled: how its promise settled;
\* cause: what was thrown inside sendCommand's try block, if anything
NoCall == [kind |-> "none", pc |-> "none", opcode |-> 0, ret |-> FALSE,
           cleared |-> FALSE, settled |-> "none", cause |-> ""]

\* the first render of the home screen
HookIdle ==
    /\ mounted = TRUE
    /\ isNativeAvailable = TRUE
    /\ device = 0
    /\ hasPermission = FALSE
    /\ isRequestingPermission = FALSE
    /\ isConnected = FALSE
    /\ isSending = FALSE
    /\ commandLog = <<>>
    /\ manualOpcode = <<>>
    /\ selectedPreset = 0
    /\ calls = [c \in CallIds |-> NoCall]
    /\ ListIdle
    /\ PermIdle

NmIdle == [deviceId |-> 0, connection |-> 0, outEndpoint |-> 0, inEndpoint |-> 0,
           mtpInterface |-> 0, opcode |-> 0, params |-> <<>>, packet |-> <<>>,
           bytesSent |-> 0, result |-> NoResult, line |-> 0,
           writes |-> 0, reads |-> 0, wrote |-> 0, readBuf |-> <<>>,
           closedAtEntry |-> FALSE, openedAtEntry |-> FALSE, txAtEntry |-> 0]

SendPcs == {"send_readOut", "send_write", "send_readIn", "send_read"}

(***************************************************************************)
(* Init: the module as constructed (lines 42-49), nothing plugged          *)
(***************************************************************************)
CodecIdle ==
    /\ cpc = "parsed"
    /\ cdata = <<>>
    /\ cres = NoContainer

NativeInit ==
    /\ attached = {}
    /\ granted = {}
    /\ connDev = [c \in ConnIds |-> 0]
    /\ connLive = [c \in ConnIds |-> FALSE]
    /\ currentDevice = 0
    /\ currentConnection = 0
    /\ currentInterface = 0
    /\ bulkOutEndpoint = 0
    /\ bulkInEndpoint = 0
    /\ transactionId = 1
    /\ nmPc = "idle"
    /\ nmL = NmIdle
    /\ mainPc = "idle"
    /\ mainDev = 0
    /\ closePc = [t \in {"nm", "main"} |-> 0]
    /\ invalidated = FALSE
    /\ everOpened = FALSE
    /\ closeRan = FALSE
    /\ sendsSinceOpen = 0
    /\ failedSinceOpen = FALSE
    /\ closedDuringSend = FALSE

Init == CodecIdle /\ NativeInit /\ HookIdle

(***************************************************************************)
(* The USB host and the user                                               *)
(***************************************************************************)
\* a device is plugged in
Attach(d) ==
    /\ d \notin attached
    /\ Cardinality(attached) < MaxAttached
    /\ attached' = attached \cup {d}
    /\ UNCHANGED <<granted, connDev, connLive, bindingVars, transactionId,
                   threadVars, historyVars, codecVars, hookVars>>

\* the user grants the USB permission for a plugged device
Grant(d) ==
    /\ d \in attached
    /\ d \notin granted
    /\ granted' = granted \cup {d}
    /\ UNCHANGED <<attached, connDev, connLive, bindingVars, transactionId,
                   threadVars, historyVars, codecVars, hookVars>>

\* a device is unplugged: its connections stop transferring, its permission
\* is gone, and ACTION_USB_DEVICE_DETACHED reaches usbDeviceReceiver on the
\* main thread (lines 94-100) unless the receiver was unregistered
Detach(d) ==
    /\ d \in attached
    /\ mainPc = "idle"
    /\ attached' = attached \ {d}
    /\ granted' = granted \ {d}
    /\ connLive' = [c \in ConnIds |-> connLive[c] /\ connDev[c] # d]
    /\ mainPc' = IF invalidated THEN "idle" ELSE "detach_check"
    /\ mainDev' = IF invalidated THEN 0 ELSE d
    /\ UNCHANGED <<connDev, bindingVars, transactionId, nmPc, nmL, closePc,
                   invalidated, historyVars, codecVars, hookVars>>

(***************************************************************************)
(* closeConnection(), lines 331-345, one step per statement, by thread t   *)
(***************************************************************************)
\* a faulty variant: the IN endpoint is left bound
KtCloseStoreKeepsIn(line, field, old) ==
    IF line = field /\ field # 344 THEN 0 ELSE old

\* the field assigned null at line `field` (340-344) after the thread ran
\* line `line` of closeConnection
KtCloseStore(line, field, old) == IF line = field THEN 0 ELSE old

CloseConnectionStep(t) ==
    /\ closePc[t] # 0
    /\ closePc' = [closePc EXCEPT ![t] =
                      CASE closePc[t] = 333 -> 340
                        [] closePc[t] = 344 -> 0
                        [] OTHER -> closePc[t] + 1]
    /\ connDev' = IF closePc[t] = 333 /\ currentConnection # 0
                  THEN [connDev EXCEPT ![currentConnection] = 0]
                  ELSE connDev
    /\ closedDuringSend' =
           (closedDuringSend
               \/ (closePc[t] = 333 /\ currentConnection # 0 /\ nmPc \in SendPcs))
    /\ currentDevice' = KtCloseStore(closePc[t], 340, currentDevice)
    /\ currentConnection' = KtCloseStore(closePc[t], 341, currentConnection)
    /\ currentInterface' = KtCloseStore(closePc[t], 342, currentInterface)
    /\ bulkOutEndpoint' = KtCloseStore(closePc[t], 343, bulkOutEndpoint)
    /\ bulkInEndpoint' = KtCloseStore(closePc[t], 344, bulkInEndpoint)
    /\ closeRan' = (closeRan \/ closePc[t] = 344)
    /\ UNCHANGED <<attached, granted, connLive, transactionId, invalidated,
                   everOpened, sendsSinceOpen, failedSinceOpen, codecVars, hookVars>>

(***************************************************************************)
(* usbDeviceReceiver, ACTION_USB_DEVICE_DETACHED, lines 101-107            *)
(***************************************************************************)
\* if (currentDevice?.deviceId == it.deviceId) closeConnection()
DetachCheck ==
    /\ mainPc = "detach_check"
    /\ IF currentDevice = mainDev
       THEN /\ mainPc' = "detach_close"
            /\ closePc' = [closePc EXCEPT !["main"] = 333]
            /\ UNCHANGED mainDev
       ELSE /\ mainPc' = "idle"
            /\ mainDev' = 0
            /\ UNCHANGED closePc
    /\ UNCHANGED <<hostVars, bindingVars, transactionId, nmPc, nmL,
                   invalidated, historyVars, codecVars, hookVars>>

\* closeConnection() on the main thread, then sendDeviceEvent and return
DetachClose ==
    /\ mainPc = "detach_close"
    /\ CloseConnectionStep("main")
    /\ mainPc' = IF closePc'["main"] = 0 THEN "idle" ELSE mainPc
    /\ mainDev' = IF closePc'["main"] = 0 THEN 0 ELSE mainDev
    /\ UNCHANGED <<nmPc, nmL>>

(***************************************************************************)
(* The native-modules thread: one @ReactMethod at a time                   *)
(***************************************************************************)
\* a connection object no one holds: usbManager.openDevice returns a new one
FreshConn ==
    {c \in ConnIds : connDev[c] = 0 /\ c # currentConnection /\ c # nmL.connection}

\* closeConnection() called on this thread by openConnection, by the
\* closeConnection method and by invalidate
NmClose ==
    /\ nmPc \in {"open_close", "close_close", "inv_close"}
    /\ CloseConnectionStep("nm")
    /\ IF closePc'["nm"] # 0
       THEN UNCHANGED <<nmPc, nmL>>
       ELSE CASE nmPc = "open_close" ->
                     /\ nmPc' = "open_device"
                     /\ UNCHANGED nmL
              [] nmPc = "close_close" ->
                     \* promise.resolve(true), line 328
                     /\ nmPc' = "settled"
                     /\ nmL' = [nmL EXCEPT !.result = Resolved("close")]
              [] OTHER ->
                     /\ nmPc' = "idle"
                     /\ nmL' = NmIdle
    /\ UNCHANGED <<mainPc, mainDev>>

\* openConnection(deviceId), lines 209-223: the two checks, then
\* closeConnection() is entered
OpenEnter(d) ==
    /\ nmPc = "idle"
    /\ ~invalidated
    /\ IF d \notin attached
       THEN /\ nmPc' = "settled"
            /\ nmL' = [NmIdle EXCEPT !.result = Rejected("open", "DEVICE_NOT_FOUND")]
            /\ UNCHANGED closePc
       ELSE IF d \notin granted
       THEN /\ nmPc' = "settled"
            /\ nmL' = [NmIdle EXCEPT !.result = Rejected("open", "NO_PERMISSION")]
            /\ UNCHANGED closePc
       ELSE /\ nmPc' = "open_close"
            /\ nmL' = [NmIdle EXCEPT !.deviceId = d,
                                     !.txAtEntry = transactionId]
            /\ closePc' = [closePc EXCEPT !["nm"] = 333]
    /\ UNCHANGED <<hostVars, bindingVars, transactionId, mainPc, mainDev,
                   invalidated, historyVars, codecVars, hookVars>>

\* a rejection that returns without closing the connection it opened
KtLeakedOnReject(d) == d

\* connection.close() before the reject of lines 289 and 296: the connection
\* object belongs to no device any more
KtClosedOnReject(d) == 0

\* lines 225-298: usbManager.openDevice (null when the device is gone or the
\* host refuses), the interface search, claimInterface (which may fail)
OpenDevice ==
    /\ nmPc = "open_device"
    /\ \E opened \in IF nmL.deviceId \in attached /\ nmL.deviceId \in granted
                         /\ FreshConn # {}
                     THEN {TRUE, FALSE} ELSE {FALSE},
          claimed \in {TRUE, FALSE} :
          LET found == FindInterface(nmL.deviceId)
              c == CHOOSE x \in FreshConn : \A y \in FreshConn : x <= y
          IN  IF ~opened
              THEN /\ nmPc' = "settled"
                   /\ nmL' = [nmL EXCEPT !.result =
                                 Rejected("open", "CONNECTION_FAILED")]
                   /\ UNCHANGED <<connDev, connLive, everOpened>>
              ELSE IF found.intf = 0 \/ found.out = 0
              THEN /\ nmPc' = "settled"
                   /\ nmL' = [nmL EXCEPT !.connection = c, !.result =
                                 Rejected("open", "NO_MTP_INTERFACE")]
                   /\ connDev' = [connDev EXCEPT ![c] =
                                     KtClosedOnReject(nmL.deviceId)]
                   /\ UNCHANGED <<connLive, everOpened>>
              ELSE IF ~claimed
              THEN /\ nmPc' = "settled"
                   /\ nmL' = [nmL EXCEPT !.connection = c, !.result =
                                 Rejected("open", "CLAIM_FAILED")]
                   /\ connDev' = [connDev EXCEPT ![c] =
                                     KtClosedOnReject(nmL.deviceId)]
                   /\ UNCHANGED <<connLive, everOpened>>
              ELSE /\ nmPc' = "open_store"
                   /\ nmL' = [nmL EXCEPT !.connection = c,
                                         !.mtpInterface = found.intf,
                                         !.outEndpoint = found.out,
                                         !.inEndpoint = found.in,
                                         !.line = 301]
                   /\ connDev' = [connDev EXCEPT ![c] = nmL.deviceId]
                   /\ connLive' = [connLive EXCEPT ![c] = TRUE]
                   /\ everOpened' = TRUE
    /\ UNCHANGED <<attached, granted, bindingVars, transactionId, mainPc,
                   mainDev, closePc, invalidated, closeRan, sendsSinceOpen,
                   failedSinceOpen, closedDuringSend, codecVars, hookVars>>

\* lines 300-318: the six stores, one per step, then promise.resolve(result)
OpenStore ==
    /\ nmPc = "open_store"
    /\ currentDevice' = IF nmL.line = 301 THEN nmL.deviceId ELSE currentDevice
    /\ currentConnection' = IF nmL.line = 302 THEN nmL.connection
                            ELSE currentConnection
    /\ currentInterface' = IF nmL.line = 303 THEN nmL.mtpInterface
                           ELSE currentInterface
    /\ bulkOutEndpoint' = IF nmL.line = 304 THEN nmL.outEndpoint
                          ELSE bulkOutEndpoint
    /\ bulkInEndpoint' = IF nmL.line = 305 THEN nmL.inEndpoint ELSE bulkInEndpoint
    /\ IF nmL.line = 306
       THEN /\ transactionId' = 1
            /\ sendsSinceOpen' = 0
            /\ failedSinceOpen' = FALSE
            /\ closeRan' = FALSE
            /\ nmPc' = "settled"
            /\ nmL' = [nmL EXCEPT !.result = Resolved("open"), !.line = 0]
       ELSE /\ nmL' = [nmL EXCEPT !.line = nmL.line + 1]
            /\ UNCHANGED <<transactionId, sendsSinceOpen, failedSinceOpen,
                           closeRan, nmPc>>
    /\ UNCHANGED <<hostVars, mainPc, mainDev, closePc, invalidated, everOpened,
                   closedDuringSend, codecVars, hookVars>>

\* closeConnection(promise), lines 325-329
CloseEnter ==
    /\ nmPc = "idle"
    /\ ~invalidated
    /\ nmPc' = "close_close"
    /\ nmL' = [NmIdle EXCEPT !.closedAtEntry = closeRan,
                             !.openedAtEntry = everOpened,
                             !.txAtEntry = transactionId]
    /\ closePc' = [closePc EXCEPT !["nm"] = 333]
    /\ UNCHANGED <<hostVars, bindingVars, transactionId, mainPc, mainDev,
                   invalidated, historyVars, codecVars, hookVars>>

\* invalidate(), lines 141-150: the receivers are unregistered, then
\* closeConnection(); no method is called on the module afterwards
Invalidate ==
    /\ nmPc = "idle"
    /\ ~invalidated
    /\ invalidated' = TRUE
    /\ nmPc' = "inv_close"
    /\ closePc' = [closePc EXCEPT !["nm"] = 333]
    /\ UNCHANGED <<hostVars, bindingVars, transactionId, nmL, mainPc, mainDev,
                   historyVars, codecVars, hookVars>>

(***************************************************************************)
(* sendMtpCommand(opcode, params), lines 348-432                           *)
(***************************************************************************)
\* val connection = currentConnection, line 350
SendEnter(opcode, params) ==
    /\ nmPc = "idle"
    /\ ~invalidated
    /\ transactionId <= MaxTx
    /\ nmPc' = "send_readOut"
    /\ nmL' = [NmIdle EXCEPT !.opcode = opcode, !.params = params,
                             !.connection = currentConnection,
                             !.closedAtEntry = closeRan,
                             !.openedAtEntry = everOpened,
                             !.txAtEntry = transactionId]
    /\ closedDuringSend' = FALSE
    /\ UNCHANGED <<hostVars, bindingVars, transactionId, mainPc, mainDev,
                   closePc, invalidated, everOpened, closeRan, sendsSinceOpen,
                   failedSinceOpen, codecVars, hookVars>>

\* val outEndpoint = bulkOutEndpoint; the NOT_CONNECTED check; the packet is
\* built with transactionId++ (lines 351-366)
SendCheck ==
    /\ nmPc = "send_readOut"
    /\ IF KtNotConnected(nmL.connection, bulkOutEndpoint)
       THEN /\ nmPc' = "settled"
            /\ nmL' = [nmL EXCEPT !.result = Rejected("send", "NOT_CONNECTED")]
            /\ UNCHANGED <<transactionId, sendsSinceOpen>>
       ELSE /\ nmPc' = "send_write"
            /\ nmL' = [nmL EXCEPT
                          !.outEndpoint = bulkOutEndpoint,
                          !.packet = KtBuildMtpCommandPacket(
                                         nmL.opcode, transactionId, nmL.params)]
            /\ transactionId' = KtIntInc(transactionId)
            /\ sendsSinceOpen' = sendsSinceOpen + 1
    /\ UNCHANGED <<hostVars, bindingVars, mainPc, mainDev, closePc, invalidated,
                   everOpened, closeRan, failedSinceOpen, closedDuringSend,
                   codecVars, hookVars>>

\* the connection object is open and its device is plugged
Transfers(c) == c \in ConnIds /\ connDev[c] # 0 /\ connLive[c]

\* what connection.bulkTransfer(outEndpoint, packet, ...) may return: -1 on a
\* closed connection or an unplugged device, else an error, nothing or all
WriteResults(c, packet) ==
    IF Transfers(c) THEN {-1, 0, Len(packet)} ELSE {-1}

\* lines 371-385: the OUT transfer; a negative result rejects TRANSFER_FAILED
SendWrite ==
    /\ nmPc = "send_write"
    /\ \E n \in WriteResults(nmL.connection, nmL.packet) :
          /\ IF KtWriteFailed(n)
             THEN /\ nmPc' = "settled"
                  /\ nmL' = [nmL EXCEPT !.bytesSent = n, !.wrote = n,
                                        !.writes = nmL.writes + 1,
                                        !.result = Rejected("send", "TRANSFER_FAILED")]
                  /\ failedSinceOpen' = TRUE
             ELSE /\ nmPc' = "send_readIn"
                  /\ nmL' = [nmL EXCEPT !.bytesSent = n, !.wrote = n,
                                        !.writes = nmL.writes + 1]
                  /\ UNCHANGED failedSinceOpen
    /\ UNCHANGED <<hostVars, bindingVars, transactionId, mainPc, mainDev,
                   closePc, invalidated, everOpened, closeRan, sendsSinceOpen,
                   closedDuringSend, codecVars, hookVars>>

\* a test that takes the read branch whatever the field holds
KtHasInEndpointAlways(ep) == TRUE

\* bulkInEndpoint?.let: the block runs when the field is not null
KtHasInEndpoint(ep) == ep # 0

\* bulkInEndpoint?.let { ... }, line 391; without an IN endpoint the call
\* resolves with responseCode -1 (lines 417-427)
SendReadIn ==
    /\ nmPc = "send_readIn"
    /\ IF ~KtHasInEndpoint(bulkInEndpoint)
       THEN /\ nmPc' = "settled"
            /\ nmL' = [nmL EXCEPT !.result =
                          SendResult(nmL.bytesSent, nmL.opcode, transactionId,
                                     -1, FALSE)]
       ELSE /\ nmPc' = "send_read"
            /\ nmL' = [nmL EXCEPT !.inEndpoint = bulkInEndpoint]
    /\ UNCHANGED <<hostVars, bindingVars, transactionId, mainPc, mainDev,
                   closePc, invalidated, historyVars, codecVars, hookVars>>

\* what connection.bulkTransfer(inEndpoint, responseBuffer, 512, ...) may
\* give: -1 (timeout, closed connection, unplugged device), 0 bytes, a frame
ReadResults(c) ==
    IF Transfers(c)
    THEN {<<>>} \cup ResponseFrames
    ELSE {<<>>}

\* lines 392-427: the one IN transfer, the response code, promise.resolve
SendRead ==
    /\ nmPc = "send_read"
    /\ \E buf \in ReadResults(nmL.connection),
          bytesRead \in {-1, 0, 5, 12} :
          /\ (buf = <<>>) = (bytesRead <= 0)
          /\ buf # <<>> => bytesRead = Len(buf)
          /\ (bytesRead = 0) => Transfers(nmL.connection)
          /\ nmPc' = "settled"
          /\ nmL' = [nmL EXCEPT
                        !.reads = nmL.reads + 1,
                        !.readBuf = buf,
                        !.result = SendResult(nmL.bytesSent, nmL.opcode,
                                              transactionId,
                                              KtResponseCode(bytesRead, buf),
                                              bytesRead > 0)]
    /\ UNCHANGED <<hostVars, bindingVars, transactionId, mainPc, mainDev,
                   closePc, invalidated, historyVars, codecVars, hookVars>>

\* the method returns; the thread takes the next call
NmReturn ==
    /\ nmPc = "settled"
    /\ nmPc' = "idle"
    /\ nmL' = NmIdle
    /\ UNCHANGED <<hostVars, bindingVars, transactionId, mainPc, mainDev,
                   closePc, invalidated, historyVars, codecVars, hookVars>>

NativeNext ==
    \/ \E d \in DeviceIds : Attach(d) \/ Grant(d) \/ Detach(d)
    \/ DetachCheck
    \/ DetachClose
    \/ \E d \in DeviceIds : OpenEnter(d)
    \/ NmClose
    \/ OpenDevice
    \/ OpenStore
    \/ CloseEnter
    \/ Invalidate
    \/ \E opcode \in Opcodes, params \in ParamLists : SendEnter(opcode, params)
    \/ SendCheck
    \/ SendWrite
    \/ SendReadIn
    \/ SendRead
    \/ NmReturn

Next == NativeNext

Spec == Init /\ [][Next]_vars

(***************************************************************************)
(* The codec specification: inputs drawn by Init, the module untouched     *)
(***************************************************************************)
CodecInit ==
    /\ cpc = "input"
    /\ \E n \in 0..MaxBuf, length \in LengthSamples, code \in CodeSamples :
           cdata = Frame(n, length, code)
    /\ cres = NoContainer
    /\ NativeInit
    /\ HookIdle

\* const parsed = parseMtpResponse(data)
CodecParse ==
    /\ cpc = "input"
    /\ cres' = parseMtpResponse(cdata)
    /\ cpc' = "parsed"
    /\ UNCHANGED <<cdata, nativeVars, hookVars>>

CodecNext == CodecParse

CodecSpec == CodecInit /\ [][CodecNext]_vars

(***************************************************************************)
(* C1: for every buffer of at least 12 bytes parseMtpResponse returns a    *)
(* container with as many parameters as both the totalLength field and the *)
(* buffer allow, min(floor((totalLength-12)/4), floor((len-12)/4)), 0 when *)
(* totalLength < 12, and it never fails.                                   *)
(***************************************************************************)
Min(a, b) == IF a <= b THEN a ELSE b

ClampedParamCount(data) ==
    LET length == GetUint32(data, 0)
    IN  IF length.hi = 0 /\ length.lo < 12 THEN 0
        ELSE IF length.hi > 0 THEN (Len(data) - 12) \div 4
        ELSE Min((length.lo - 12) \div 4, (Len(data) - 12) \div 4)

C1_ParseClampsToBuffer ==
    (cpc = "parsed" /\ Len(cdata) >= 12) =>
        /\ cres.tag = "container"
        /\ Len(cres.params) = ClampedParamCount(cdata)
        /\ cres.length = GetUint32(cdata, 0)
        /\ cres.code = GetUint16(cdata, 6)

(***************************************************************************)
(* Properties of sendMtpCommand (specification Spec)                       *)
(***************************************************************************)
\* a sendMtpCommand call has settled its promise and not yet returned
SendSettled == nmPc = "settled" /\ nmL.result.op = "send"

\* a sendMtpCommand call is past its NOT_CONNECTED check
SendPastCheck ==
    nmPc \in {"send_write", "send_readIn", "send_read"}
        \/ (SendSettled /\ nmL.packet # <<>>)

\* the outcome as sendCommand reports it: true only for a resolved promise
\* whose result passes line 281 of the hook
ReportedSuccess == nmL.result.kind = "resolve" /\ HookIsSuccess(nmL.result)

\* the response code carried by the bytes the IN read delivered, if any
ObservedCode ==
    IF Len(nmL.readBuf) >= 12 THEN nmL.readBuf[7] + 256 * nmL.readBuf[8] ELSE -1

\* C2: a settled send is reported as success exactly when the OUT write
\* transferred more than 0 bytes and either no response code was observed
\* (nothing read, or fewer than 12 bytes) or the observed code is 0x2001.
C2_SuccessIffWrittenAndOk ==
    SendSettled =>
        (ReportedSuccess <=>
            (nmL.writes = 1 /\ nmL.wrote > 0
                /\ (ObservedCode = -1 \/ ObservedCode = 8193)))

C2_Witness_OkResponse ==
    SendSettled /\ ReportedSuccess /\ nmL.wrote > 0 /\ ObservedCode = 8193

\* C3: the k-th send past the NOT_CONNECTED check since the last successful
\* open carries transaction ID k in bytes 8..11 of its packet, the counter
\* then stands at k + 1 whatever the write and the read do, and the
\* transactionId of the resolved result is k as well.
C3_TransactionIdIsSendIndex ==
    SendPastCheck =>
        /\ GetUint32(nmL.packet, 8) = ToU32(sendsSinceOpen)
        /\ transactionId = sendsSinceOpen + 1
        /\ (SendSettled /\ nmL.result.kind = "resolve"
               => nmL.result.transactionId = sendsSinceOpen)

C3_Witness_SecondSend ==
    SendSettled /\ nmL.result.kind = "resolve" /\ sendsSinceOpen = 2
        /\ nmL.result.transactionId = 2 /\ failedSinceOpen

\* C4: a send entered before any openConnection bound a transport is
\* rejected NOT_CONNECTED at its check, issues no bulk write and no bulk
\* read, and leaves the transaction counter as it found it.
C4_SendBeforeOpenNotConnected ==
    ((nmPc \in SendPcs \/ SendSettled) /\ ~nmL.openedAtEntry) =>
        /\ nmPc \in {"send_readOut", "settled"}
        /\ nmL.writes = 0
        /\ nmL.reads = 0
        /\ transactionId = nmL.txAtEntry
        /\ (SendSettled => nmL.result = Rejected("send", "NOT_CONNECTED"))

C4_Witness_RejectedBeforeOpen ==
    SendSettled /\ ~nmL.openedAtEntry
        /\ nmL.result = Rejected("send", "NOT_CONNECTED")

\* C5: a send entered after a closeConnection returned, with no
\* openConnection resolved since, is rejected NOT_CONNECTED and issues no
\* bulk transfer.
C5_SendAfterCloseNotConnected ==
    ((nmPc \in SendPcs \/ SendSettled) /\ nmL.closedAtEntry) =>
        /\ nmPc \in {"send_readOut", "settled"}
        /\ nmL.writes = 0
        /\ nmL.reads = 0
        /\ (SendSettled => nmL.result = Rejected("send", "NOT_CONNECTED"))

\* C6: when the OUT write transferred more than 0 bytes and the response is
\* missing (the IN read timed out or gave 0 bytes, or no IN endpoint is
\* bound so that no read is made), the send resolves with success = true
\* and responseCode = -1, and the hook counts it a success.
C6_MissingResponseIsSuccess ==
    (SendSettled /\ nmL.wrote > 0 /\ (nmL.reads = 0 \/ nmL.readBuf = <<>>)) =>
        /\ nmL.result.kind = "resolve"
        /\ nmL.result.success
        /\ nmL.result.responseCode = -1
        /\ ReportedSuccess

C6_Witness_ReadTimedOut ==
    SendSettled /\ nmL.wrote > 0 /\ nmL.reads = 1 /\ nmL.readBuf = <<>>
        /\ nmL.result.success /\ nmL.result.responseCode = -1

\* the no-IN-endpoint case of C6: a device whose interface has only a bulk
\* OUT endpoint
C6_Reach_NoInEndpoint ==
    SendSettled /\ nmL.wrote > 0 /\ nmL.reads = 0 /\ nmL.result.success

\* C7: the step in which the OUT write returns a negative result rejects the
\* call with TRANSFER_FAILED and changes neither the five binding fields nor
\* any connection object; the next send on the connection runs as usual.
C7_WriteFailureKeepsBinding ==
    [][(nmPc = "send_write" /\ nmPc' # "send_write" /\ nmL'.wrote < 0) =>
          /\ nmPc' = "settled"
          /\ nmL'.result = Rejected("send", "TRANSFER_FAILED")
          /\ bindingVars' = bindingVars
          /\ connDev' = connDev
          /\ connLive' = connLive]_vars

C7_Witness_SuccessAfterFailure ==
    SendSettled /\ ReportedSuccess /\ failedSinceOpen
        /\ currentConnection = nmL.connection /\ sendsSinceOpen = 2

\* C9: a send under which the connection was closed, between its entry and
\* its read, settles with a failure outcome.
C9_CloseDuringSendFails ==
    (SendSettled /\ closedDuringSend) => ~ReportedSuccess

(***************************************************************************)
(* mtp-utils.ts parseHexOpcode and the opcode field of the home screen.    *)
(* A text is a sequence of one-character strings.                          *)
(***************************************************************************)
HexDigits == <<"0", "1", "2", "3", "4", "5", "6", "7", "8", "9",
               "A", "B", "C", "D", "E", "F">>

\* String.prototype.toUpperCase, on the characters that occur
ToUpperCase(c) ==
    CASE c = "a" -> "A" [] c = "b" -> "B" [] c = "c" -> "C" [] c = "d" -> "D"
      [] c = "e" -> "E" [] c = "f" -> "F" [] c = "x" -> "X" [] c = "g" -> "G"
      [] OTHER -> c

\* the character class [0-9A-Fa-f]
IsHexChar(c) == \E i \in 1..16 : HexDigits[i] = ToUpperCase(c)

HexValue(c) == (CHOOSE i \in 1..16 : HexDigits[i] = ToUpperCase(c)) - 1

\* a parse that leaves the prefix in the text
StripPrefixKept(hex) == hex

\* hex.replace(/^0x/i, '')
StripPrefix(hex) ==
    IF Len(hex) >= 2 /\ hex[1] = "0" /\ ToUpperCase(hex[2]) = "X"
    THEN SubSeq(hex, 3, Len(hex))
    ELSE hex

\* String.prototype.trim
RECURSIVE Trim(_)
Trim(s) ==
    IF s # <<>> /\ s[1] = " " THEN Trim(Tail(s))
    ELSE IF s # <<>> /\ s[Len(s)] = " " THEN Trim(SubSeq(s, 1, Len(s) - 1))
    ELSE s

\* parseInt(cleaned, 16) of a text of hex digits
RECURSIVE ParseIntHex(_)
ParseIntHex(s) ==
    IF s = <<>> THEN 0
    ELSE 16 * ParseIntHex(SubSeq(s, 1, Len(s) - 1)) + HexValue(s[Len(s)])

\* the null that parseHexOpcode returns
NullOpcode == -1

parseHexOpcode(hex) ==
    LET cleaned == Trim(StripPrefix(hex))
    IN  IF Len(cleaned) \in 1..4 /\ \A i \in 1..Len(cleaned) : IsHexChar(cleaned[i])
        THEN ParseIntHex(cleaned)
        ELSE NullOpcode

\* text.replace(/[^0-9A-Fa-f]/g, "").toUpperCase()
RECURSIVE KeepHex(_)
KeepHex(text) ==
    IF text = <<>> THEN <<>>
    ELSE (IF IsHexChar(Head(text)) THEN <<ToUpperCase(Head(text))>> ELSE <<>>)
             \o KeepHex(Tail(text))

\* what handleOpcodeChange stores: cleaned.slice(0, 4)
CleanedOpcode(text) ==
    LET cleaned == KeepHex(text)
    IN  SubSeq(cleaned, 1, IF Len(cleaned) < 4 THEN Len(cleaned) ELSE 4)

\* what the user types into the opcode field
TypedTexts == {<<"f", "e", "0", "1">>, <<"0", "x", "g">>, <<>>}

\* the preset the user opens: ENABLE_ADB
PresetCodes == {65027}

(***************************************************************************)
(* use-usb-device.ts: the async functions of the hook.  Each call runs     *)
(* from one await to the next in one step.                                 *)
(***************************************************************************)
\* index.tsx line 489
canSendCommands == (isConnected \/ (device # 0 /\ hasPermission)) /\ ~isSending

\* no async function is between a return and its caller's continuation:
\* these run as microtasks, before any event or native result is handled
NoTick == \A c \in CallIds : calls[c].pc # "tick"

FreeCalls == {c \in CallIds : calls[c].kind = "none"}
NextCall == CHOOSE c \in FreeCalls : \A x \in FreeCalls : c <= x

\* a state setter: React drops the update once the component is unmounted
SetState(old, new) == IF mounted THEN new ELSE old

\* a faulty variant: the entry of a resolved send is always marked success
LogStatusAlwaysSuccess(isSuccess) == "success"

\* status: isSuccess ? 'success' : 'error', line 288
LogStatus(isSuccess) == IF isSuccess THEN "success" ELSE "error"

\* requestPermission, lines 175-190: false at once without a device or the
\* native module, else suspended at UsbMtpModule.hasPermission
PermissionEntry(dev) ==
    IF dev = 0 \/ ~isNativeAvailable THEN "tick" ELSE "perm_has"

\* connect, lines 221-232
ConnectEntry(dev, perm) ==
    IF dev = 0 THEN "tick"
    ELSE IF ~perm THEN PermissionEntry(dev)
    ELSE "open"

\* sendCommand, lines 268-275
SendEntry(conn, dev, perm) ==
    IF ~conn THEN ConnectEntry(dev, perm) ELSE "sendMtp"

\* the screen calls requestPermission, connect or sendCommand: the function
\* runs to its first await with the state of the current render; sendCommand
\* first prepends its pending entry and sets isSending (lines 255-264)
BeginCall(kind, opcode) ==
    LET c == NextCall
        pc == CASE kind = "send" -> SendEntry(isConnected, device, hasPermission)
                [] kind = "connect" -> ConnectEntry(device, hasPermission)
                [] OTHER -> PermissionEntry(device)
    IN  /\ FreeCalls # {}
        /\ calls' = [calls EXCEPT ![c] =
                        [NoCall EXCEPT !.kind = kind, !.pc = pc,
                                       !.opcode = opcode]]
        /\ isRequestingPermission' = (isRequestingPermission \/ pc = "perm_has")
        /\ commandLog' =
               IF kind = "send"
               THEN <<[id |-> c, opcode |-> opcode, status |-> "pending"]>>
                        \o commandLog
               ELSE commandLog
        /\ isSending' = (isSending \/ kind = "send")

\* the call returns ret; sendCommand rewrites its entry and clears isSending
\* if still mounted (lines 283-297, 302-312, 314-318)
Finish(c, ret, status) ==
    /\ calls' = [calls EXCEPT ![c].pc = "done", ![c].ret = ret,
                              ![c].settled = "resolve"]
    /\ IF calls[c].kind = "send"
       THEN /\ commandLog' =
                   SetState(commandLog,
                            [i \in DOMAIN commandLog |->
                                IF commandLog[i].id = c
                                THEN [commandLog[i] EXCEPT !.status = status]
                                ELSE commandLog[i]])
            /\ isSending' = SetState(isSending, FALSE)
       ELSE UNCHANGED <<commandLog, isSending>>

\* a faulty variant: the catch block lets the error out of sendCommand
SendCommandRethrows == "reject"

\* sendCommand's catch block ends in return false (line 313), so the promise
\* of the async function resolves
SendCommandCatch == "resolve"

\* something was thrown inside sendCommand's try block: the catch block marks
\* the entry 'error' and returns false, finally clears isSending (lines
\* 300-318)
Caught(c, cause) ==
    /\ calls' = [calls EXCEPT ![c].pc = "done", ![c].ret = FALSE,
                              ![c].settled = SendCommandCatch,
                              ![c].cause = cause]
    /\ commandLog' =
           SetState(commandLog,
                    [i \in DOMAIN commandLog |->
                        IF commandLog[i].id = c
                        THEN [commandLog[i] EXCEPT !.status = "error"]
                        ELSE commandLog[i]])
    /\ isSending' = SetState(isSending, FALSE)

\* connect or requestPermission returns false to the screen; inside
\* sendCommand a failed connect or a failed native call throws
Fail(c, cause) ==
    IF calls[c].kind = "send" THEN Caught(c, cause) ELSE Finish(c, FALSE, "error")

\* requestPermission returned ok to its caller: the screen, or connect
\* (lines 227-232), which goes on to openConnection or returns false
AfterPermission(c, ok) ==
    IF calls[c].kind = "permission" THEN Finish(c, ok, "error")
    ELSE IF ~ok THEN Fail(c, "connect")
    ELSE /\ calls' = [calls EXCEPT ![c].pc = "open"]
         /\ UNCHANGED <<commandLog, isSending>>

\* what the hook's actions leave alone
HookFrame ==
    UNCHANGED <<codecVars, nativeVars, mounted, isNativeAvailable, listVars,
                permVars>>

\* UsbMtpModule.hasPermission(deviceId) settles (lines 190-194, 207-217)
HasPermissionSettles(c, outcome) ==
    /\ NoTick
    /\ calls[c].pc = "perm_has"
    /\ IF outcome = "false"
       THEN \* on to UsbMtpModule.requestPermission, line 197
            /\ calls' = [calls EXCEPT ![c].pc = "perm_req"]
            /\ UNCHANGED <<hasPermission, isRequestingPermission, commandLog,
                           isSending>>
       ELSE /\ hasPermission' = IF outcome = "true"
                                THEN SetState(hasPermission, TRUE)
                                ELSE hasPermission
            /\ isRequestingPermission' = SetState(isRequestingPermission, FALSE)
            /\ AfterPermission(c, outcome = "true")
    /\ UNCHANGED <<device, isConnected, manualOpcode, selectedPreset>>
    /\ HookFrame

\* UsbMtpModule.requestPermission(deviceId) settles (lines 197-217)
RequestPermissionSettles(c, outcome) ==
    /\ NoTick
    /\ calls[c].pc = "perm_req"
    /\ hasPermission' = IF outcome = "reject"
                        THEN hasPermission
                        ELSE SetState(hasPermission, outcome = "true")
    /\ isRequestingPermission' = SetState(isRequestingPermission, FALSE)
    /\ AfterPermission(c, outcome = "true")
    /\ UNCHANGED <<device, isConnected, manualOpcode, selectedPreset>>
    /\ HookFrame

\* UsbMtpModule.openConnection(deviceId) settles (lines 232-251); connect
\* returns to the screen or to sendCommand (lines 269-275)
OpenConnectionSettles(c, outcome) ==
    /\ NoTick
    /\ calls[c].pc = "open"
    /\ LET connected == outcome = "resolve" /\ mounted
       IN  /\ isConnected' = (isConnected \/ connected)
           /\ IF ~connected THEN Fail(c, "connect")
              ELSE IF calls[c].kind = "connect" THEN Finish(c, TRUE, "error")
              ELSE /\ calls' = [calls EXCEPT ![c].pc = "sendMtp"]
                   /\ UNCHANGED <<commandLog, isSending>>
    /\ UNCHANGED <<device, hasPermission, isRequestingPermission, manualOpcode,
                   selectedPreset>>
    /\ HookFrame

\* what UsbMtpModule.sendMtpCommand may settle with: null from the wrapper
\* without a native module, else a rejection or a result map of the module
SendOutcomes(opcode) ==
    IF ~isNativeAvailable THEN {NoResult}
    ELSE {Rejected("send", code) :
              code \in {"NOT_CONNECTED", "TRANSFER_FAILED", "SEND_ERROR"}}
         \cup {SendResult(bytesSent, opcode, 2, responseCode, responseCode # -1) :
                  bytesSent \in {0, 12}, responseCode \in {-1, 8193, 8197}}

\* UsbMtpModule.sendMtpCommand settles (lines 275-318)
SendMtpCommandSettles(c, result) ==
    /\ NoTick
    /\ calls[c].pc = "sendMtp"
    /\ IF result.kind = "resolve"
       THEN Finish(c, HookIsSuccess(result), LogStatus(HookIsSuccess(result)))
       ELSE Fail(c, IF result.kind = "reject" THEN result.code ELSE "null")
    /\ UNCHANGED <<device, hasPermission, isRequestingPermission, isConnected,
                   manualOpcode, selectedPreset>>
    /\ HookFrame

\* the continuation after a connect or requestPermission that returned
\* false without awaiting anything
Tick(c) ==
    /\ calls[c].pc = "tick"
    /\ Fail(c, "connect")
    /\ UNCHANGED <<device, hasPermission, isRequestingPermission, isConnected,
                   manualOpcode, selectedPreset>>
    /\ HookFrame

(***************************************************************************)
(* index.tsx: what the user can do on the home screen                      *)
(***************************************************************************)
\* the screen is shown and handles an event
Shown == mounted /\ NoTick

\* a device of the list is tapped: selectDevice, lines 167-172
SelectDevice(d) ==
    /\ Shown
    /\ isNativeAvailable
    /\ device' = d
    /\ isConnected' = FALSE
    /\ hasPermission' = FALSE
    /\ UNCHANGED <<isRequestingPermission, isSending, commandLog, manualOpcode,
                   selectedPreset, calls>>
    /\ HookFrame

\* "Grant USB Permission", index.tsx lines 196-219
PressRequestPermission ==
    /\ Shown
    /\ isNativeAvailable
    /\ device # 0 /\ ~hasPermission /\ ~isRequestingPermission
    /\ BeginCall("permission", 0)
    /\ UNCHANGED <<device, hasPermission, isConnected, manualOpcode,
                   selectedPreset>>
    /\ HookFrame

\* "Connect to Device", index.tsx lines 220-232
PressConnect ==
    /\ Shown
    /\ isNativeAvailable
    /\ device # 0 /\ hasPermission /\ ~isConnected
    /\ BeginCall("connect", 0)
    /\ UNCHANGED <<device, hasPermission, isConnected, manualOpcode,
                   selectedPreset>>
    /\ HookFrame

\* handleOpcodeChange, lines 533-537
ChangeOpcodeText(text) ==
    /\ Shown
    /\ manualOpcode' = CleanedOpcode(text)
    /\ UNCHANGED <<device, hasPermission, isRequestingPermission, isConnected,
                   isSending, commandLog, selectedPreset, calls>>
    /\ HookFrame

\* handleSendManual, lines 515-531
handleSendManual ==
    LET parsed == parseHexOpcode(manualOpcode)
    IN  IF parsed = NullOpcode
        THEN UNCHANGED <<manualOpcode, isRequestingPermission, isSending,
                         commandLog, calls>>
        ELSE /\ BeginCall("send", parsed)
             /\ manualOpcode' = <<>>

\* the Send button next to the field, lines 638-649
PressManualSend ==
    /\ Shown
    /\ canSendCommands /\ manualOpcode # <<>>
    /\ handleSendManual
    /\ UNCHANGED <<device, hasPermission, isConnected, selectedPreset>>
    /\ HookFrame

\* the keyboard's done key: onSubmitEditing={handleSendManual}, line 635
SubmitEditing ==
    /\ Shown
    /\ handleSendManual
    /\ UNCHANGED <<device, hasPermission, isConnected, selectedPreset>>
    /\ HookFrame

\* handlePresetPress, lines 497-502: the buttons are never disabled
PressPreset(code) ==
    /\ Shown
    /\ selectedPreset' = code
    /\ UNCHANGED <<device, hasPermission, isRequestingPermission, isConnected,
                   isSending, commandLog, manualOpcode, calls>>
    /\ HookFrame

\* Cancel in the modal, line 771
CloseModal ==
    /\ Shown
    /\ selectedPreset # 0
    /\ selectedPreset' = 0
    /\ UNCHANGED <<device, hasPermission, isRequestingPermission, isConnected,
                   isSending, commandLog, manualOpcode, calls>>
    /\ HookFrame

\* Send in the modal: handleSendPreset, lines 504-513, enabled by
\* canSend={canSendCommands || (device !== null)}, line 773
PressModalSend ==
    /\ Shown
    /\ selectedPreset # 0
    /\ canSendCommands \/ device # 0
    /\ BeginCall("send", selectedPreset)
    /\ selectedPreset' = 0
    /\ UNCHANGED <<device, hasPermission, isConnected, manualOpcode>>
    /\ HookFrame

\* Clear above the log: clearLog, line 321
ClearLog ==
    /\ Shown
    /\ commandLog # <<>>
    /\ commandLog' = <<>>
    /\ calls' = [c \in CallIds |->
                    IF calls[c].kind = "send"
                    THEN [calls[c] EXCEPT !.cleared = TRUE]
                    ELSE calls[c]]
    /\ UNCHANGED <<device, hasPermission, isRequestingPermission, isConnected,
                   isSending, manualOpcode, selectedPreset>>
    /\ HookFrame

\* the screen goes away: the effect's cleanup, lines 143-147
Unmount ==
    /\ Shown
    /\ mounted' = FALSE
    /\ UNCHANGED <<codecVars, nativeVars, isNativeAvailable, device,
                   hasPermission, isRequestingPermission, isConnected, isSending,
                   commandLog, manualOpcode, selectedPreset, calls, listVars,
                   permVars>>

HookInit ==
    /\ CodecIdle
    /\ NativeInit
    /\ mounted = TRUE
    /\ isNativeAvailable \in BOOLEAN
    /\ device = 0
    /\ hasPermission = FALSE
    /\ isRequestingPermission = FALSE
    /\ isConnected = FALSE
    /\ isSending = FALSE
    /\ commandLog = <<>>
    /\ manualOpcode = <<>>
    /\ selectedPreset = 0
    /\ calls = [c \in CallIds |-> NoCall]
    /\ ListIdle
    /\ PermIdle

HookNext ==
    \/ \E d \in DeviceIds : SelectDevice(d)
    \/ PressRequestPermission
    \/ PressConnect
    \/ \E text \in TypedTexts : ChangeOpcodeText(text)
    \/ PressManualSend
    \/ SubmitEditing
    \/ \E code \in PresetCodes : PressPreset(code)
    \/ CloseModal
    \/ PressModalSend
    \/ ClearLog
    \/ Unmount
    \/ \E c \in CallIds, outcome \in {"true", "false", "reject"} :
           HasPermissionSettles(c, outcome)
    \/ \E c \in CallIds, outcome \in {"true", "false", "reject"} :
           RequestPermissionSettles(c, outcome)
    \/ \E c \in CallIds, outcome \in {"resolve", "reject"} :
           OpenConnectionSettles(c, outcome)
    \/ \E c \in CallIds : \E result \in SendOutcomes(calls[c].opcode) :
           SendMtpCommandSettles(c, result)
    \/ \E c \in CallIds : Tick(c)

HookSpec == HookInit /\ [][HookNext]_vars

(***************************************************************************)
(* Properties of sendCommand and the home screen (specification HookSpec)  *)
(***************************************************************************)
\* the sendCommand calls that have not returned
Outstanding ==
    {c \in CallIds : calls[c].kind = "send" /\ calls[c].pc # "done"}

\* C8: at most one sendCommand is outstanding at any time, and while the
\* screen is mounted isSending is true exactly when one is.
C8_OneSendInFlight ==
    /\ Cardinality(Outstanding) <= 1
    /\ mounted => (isSending <=> Outstanding # {})

LogEntries(c) == {i \in DOMAIN commandLog : commandLog[i].id = c}

SendFailures ==
    {"connect", "NOT_CONNECTED", "TRANSFER_FAILED", "SEND_ERROR", "null"}

\* C11: a sendCommand call that met a failure has resolved, never rejected,
\* with the value false; once no sendCommand is outstanding on a mounted
\* screen isSending is false again, whatever the calls ran into.
C11_SendCommandNeverRejects ==
    /\ \A c \in CallIds :
          (calls[c].kind = "send" /\ calls[c].pc = "done") =>
              /\ calls[c].settled = "resolve"
              /\ calls[c].cause \in SendFailures => ~calls[c].ret
    /\ (mounted /\ Outstanding = {}) => ~isSending

\* a send that failed with TRANSFER_FAILED, and a later one that succeeded
C11_Witness_SendAfterFailure ==
    /\ mounted /\ ~isSending
    /\ \E c, e \in CallIds :
          /\ c < e
          /\ calls[c].kind = "send" /\ calls[c].pc = "done"
          /\ calls[c].cause = "TRANSFER_FAILED" /\ ~calls[c].ret
          /\ calls[e].kind = "send" /\ calls[e].pc = "done" /\ calls[e].ret


(***************************************************************************)
(* Properties of closeConnection and openConnection (specification Spec)   *)
(***************************************************************************)
\* a closeConnection call has settled its promise and not yet returned
CloseSettled == nmPc = "settled" /\ nmL.result.op = "close"

Unbound ==
    /\ currentDevice = 0
    /\ currentConnection = 0
    /\ currentInterface = 0
    /\ bulkOutEndpoint = 0
    /\ bulkInEndpoint = 0

\* C12: every closeConnection call, on a bound module, on one closed before
\* and on one never opened alike, resolves true and leaves device,
\* connection, interface and both endpoints unbound and the counter as it was.
C12_CloseIdempotent ==
    CloseSettled =>
        /\ nmL.result.kind = "resolve"
        /\ nmL.result.success
        /\ Unbound
        /\ transactionId = nmL.txAtEntry

\* a close of a module that was opened and closed before
C12_Witness_ClosedTwice ==
    CloseSettled /\ nmL.openedAtEntry /\ nmL.closedAtEntry /\ Unbound

\* a close of a module never opened
C12_Reach_NeverOpened ==
    CloseSettled /\ ~nmL.openedAtEntry /\ Unbound


\* an openConnection call has resolved and not yet returned
OpenResolved ==
    nmPc = "settled" /\ nmL.result.op = "open" /\ nmL.result.kind = "resolve"

\* C13: when openConnection resolves, the five fields hold the device, the
\* connection, the interface and the endpoints this call opened, no other
\* connection object is left open, and the transaction counter is 1.
C13_OpenRebindsAndResets ==
    OpenResolved =>
        /\ currentDevice = nmL.deviceId
        /\ currentConnection = nmL.connection
        /\ currentInterface = nmL.mtpInterface
        /\ bulkOutEndpoint = nmL.outEndpoint
        /\ bulkInEndpoint = nmL.inEndpoint
        /\ \A c \in ConnIds : connDev[c] # 0 => c = nmL.connection
        /\ transactionId = 1

\* the part of C13 about the counter alone
C13_Holds_CounterReset == OpenResolved => transactionId = 1

\* a re-open after sends: the counter had advanced and is 1 again
C13_Reach_ReopenAfterSends ==
    OpenResolved /\ transactionId = 1 /\ nmL.txAtEntry > 1


\* C14: a send that finds the connection and the OUT endpoint bound at its
\* check goes on to the write with a packet whose bytes 6..7 are its opcode,
\* whichever opcode it is, and the write step hands that packet to the one
\* bulk OUT transfer unchanged.
C14_SendsAnyOpcode ==
    [][/\ (nmPc = "send_readOut" /\ nmPc' # "send_readOut"
              /\ nmL.connection # 0 /\ bulkOutEndpoint # 0) =>
              /\ nmPc' = "send_write"
              /\ nmL'.opcode = nmL.opcode
              /\ GetUint16(nmL'.packet, 6) = nmL.opcode
       /\ (nmPc = "send_write" /\ nmPc' # "send_write") =>
              /\ nmL'.writes = 1
              /\ nmL'.packet = nmL.packet
              /\ nmL'.wrote \in {-1, 0, Len(nmL.packet)}]_vars

\* a transmitted command whose opcode is in a curated range and no preset
C14_Witness_RangeOpcodeSent ==
    SendSettled /\ nmL.opcode = 4097 /\ nmL.wrote > 0
        /\ nmL.wrote = Len(nmL.packet)
        /\ GetUint16(nmL.packet, 6) = 4097

\* the same for an opcode in no range and for a preset
C14_Reach_UnknownOpcodeSent ==
    SendSettled /\ nmL.opcode = 1 /\ nmL.wrote > 0
        /\ nmL.wrote = Len(nmL.packet)
        /\ GetUint16(nmL.packet, 6) = 1

C14_Reach_PresetOpcodeSent ==
    SendSettled /\ nmL.opcode = 65025 /\ nmL.wrote > 0
        /\ nmL.wrote = Len(nmL.packet)
        /\ GetUint16(nmL.packet, 6) = 65025

(***************************************************************************)
(* src/lib/mtp-utils.ts: buildMtpCommandPacket                             *)
(***************************************************************************)
\* the length written when the parameters are left out of the sum
TotalLengthHeaderOnly(params) == MTP_HEADER_LENGTH

\* const totalLength = headerLength + params.length * 4
TotalLength(params) == MTP_HEADER_LENGTH + 4 * Len(params)

\* params.forEach((param, index) => view.setUint32(12 + index * 4, param, true))
RECURSIVE TsPutParams(_)
TsPutParams(params) ==
    IF params = <<>> THEN <<>>
    ELSE PutUint32(Head(params)) \o TsPutParams(Tail(params))

\* The ArrayBuffer has totalLength bytes, zero filled; setUint32 and setUint16
\* store the value modulo 2^32 and 2^16, low byte first.  txId (the
\* transactionId argument) and the parameters are 32-bit values, held as
\* hi/lo halves.
buildMtpCommandPacket(opcode, txId, params) ==
    PutUint32(ToU32(TotalLength(params)))
        \o PutUint16(1)
        \o PutUint16(opcode)
        \o PutUint32(txId)
        \o TsPutParams(params)

(***************************************************************************)
(* The builder specification: build a command packet, then parse it back   *)
(***************************************************************************)
MaxParams == 5
BuildOpcodes == {0, 1, 4097, 65025, 65535}
BuildTxIds == {U32(0, 0), U32(0, 1), U32(1, 0), U32(32768, 0), U32(65535, 65535)}
ParamValues == {U32(0, 0), U32(4660, 22136), U32(65535, 65535)}
BuildParams == UNION {[1..n -> ParamValues] : n \in 0..MaxParams}

BuildInit ==
    /\ cpc = "args"
    /\ \E opcode \in BuildOpcodes, txId \in BuildTxIds,
          params \in BuildParams :
           cdata = [opcode |-> opcode, transactionId |-> txId,
                    params |-> params, packet |-> <<>>]
    /\ cres = NoContainer
    /\ NativeInit
    /\ HookIdle

\* const packet = buildMtpCommandPacket(opcode, transactionId, params)
BuildPacket ==
    /\ cpc = "args"
    /\ cdata' = [cdata EXCEPT !.packet =
                    buildMtpCommandPacket(cdata.opcode, cdata.transactionId,
                                          cdata.params)]
    /\ cpc' = "built"
    /\ UNCHANGED <<cres, nativeVars, hookVars>>

\* const parsed = parseMtpResponse(packet)
BuildReparse ==
    /\ cpc = "built"
    /\ cres' = parseMtpResponse(cdata.packet)
    /\ cpc' = "reparsed"
    /\ UNCHANGED <<cdata, nativeVars, hookVars>>

BuildNext == BuildPacket \/ BuildReparse

BuildSpec == BuildInit /\ [][BuildNext]_vars

(***************************************************************************)
(* C15: for every opcode in 0..0xFFFF, transaction id in 0..2^32-1 and     *)
(* list of n parameters, 0 <= n <= 5, buildMtpCommandPacket returns        *)
(* exactly 12 + 4n bytes, whose first four bytes are 12 + 4n in            *)
(* little-endian order and whose bytes 4-5 are 01 00.                      *)
(***************************************************************************)
C15_PacketLengthAndHeader ==
    cpc \in {"built", "reparsed"} =>
        LET n == Len(cdata.params)
            p == cdata.packet
        IN  /\ n \in 0..MaxParams
            /\ Len(p) = 12 + 4 * n
            /\ p[1] = 12 + 4 * n /\ p[2] = 0 /\ p[3] = 0 /\ p[4] = 0
            /\ p[5] = 1 /\ p[6] = 0

C15_Witness_FiveParams ==
    /\ cpc = "built"
    /\ Len(cdata.params) = 5
    /\ Len(cdata.packet) = 32
    /\ cdata.packet[1] = 32
    /\ cdata.opcode = 65535
    /\ cdata.transactionId = U32(65535, 65535)

C15_Reach_NoParams ==
    cpc = "built" /\ cdata.params = <<>> /\ Len(cdata.packet) = 12

(***************************************************************************)
(* C16: parseMtpResponse(buildMtpCommandPacket(op, id, params)) is a       *)
(* container whose code is op, transactionId is id, type is 1, length is   *)
(* 12 + 4n and params are the parameters given, in order.                  *)
(***************************************************************************)
C16_BuildParseRoundTrip ==
    cpc = "reparsed" =>
        /\ cres.tag = "container"
        /\ cres.code = cdata.opcode
        /\ cres.transactionId = cdata.transactionId
        /\ cres.type = 1
        /\ cres.length = U32(0, 12 + 4 * Len(cdata.params))
        /\ cres.params = cdata.params

C16_Witness_FiveParamsBack ==
    /\ cpc = "reparsed"
    /\ cres.tag = "container"
    /\ Len(cres.params) = 5
    /\ cres.params[2] = U32(4660, 22136)
    /\ cres.code = 65025
    /\ cres.transactionId = U32(32768, 0)

(***************************************************************************)
(* C17: parseMtpResponse returns null for every buffer of 0..11 bytes,     *)
(* whatever the bytes are, and returns a container for every buffer of at  *)
(* least 12 bytes whose totalLength field does not exceed the number of    *)
(* bytes in the buffer.                                                    *)
(***************************************************************************)
\* the totalLength field of a buffer of at least 12 bytes lies within it
LengthFieldConsistent(data) ==
    LET length == GetUint32(data, 0)
    IN  length.hi = 0 /\ length.lo <= Len(data)

C17_NullBelowHeaderElseContainer ==
    cpc = "parsed" =>
        /\ Len(cdata) < 12 => cres = NoContainer
        /\ (Len(cdata) >= 12 /\ LengthFieldConsistent(cdata)) =>
               cres.tag = "container"

C17_Witness_ElevenBytesNull ==
    /\ cpc = "parsed"
    /\ Len(cdata) = 11
    /\ cdata[1] = 11
    /\ cres.tag = "null"

C17_Reach_TwelveBytesContainer ==
    /\ cpc = "parsed"
    /\ Len(cdata) = 12
    /\ LengthFieldConsistent(cdata)
    /\ GetUint32(cdata, 0) = U32(0, 12)
    /\ cres.tag = "container"
    /\ cres.params = <<>>

C17_Reach_TwentyBytesTwoParams ==
    /\ cpc = "parsed"
    /\ Len(cdata) = 20
    /\ GetUint32(cdata, 0) = U32(0, 20)
    /\ cres.tag = "container"
    /\ Len(cres.params) = 2

C17_Reach_EmptyBufferNull ==
    cpc = "parsed" /\ cdata = <<>> /\ cres.tag = "null"

(***************************************************************************)
(* The opcode text specification: parseHexOpcode applied to typed texts    *)
(***************************************************************************)
MaxText == 6
TextChars == {"0", "F", "a", "x", "X", "g", " "}
Texts == UNION {[1..n -> TextChars] : n \in 0..MaxText}

HexInit ==
    /\ cpc = "text"
    /\ cdata \in Texts
    /\ cres = NullOpcode
    /\ NativeInit
    /\ HookIdle

\* const opcode = parseHexOpcode(hex)
HexParse ==
    /\ cpc = "text"
    /\ cres' = parseHexOpcode(cdata)
    /\ cpc' = "opcode"
    /\ UNCHANGED <<cdata, nativeVars, hookVars>>

HexNext == HexParse

HexSpec == HexInit /\ [][HexNext]_vars

\* the text is made of 1 to 4 hex digits
IsHexDigits(s) == Len(s) \in 1..4 /\ \A i \in 1..Len(s) : IsHexChar(s[i])

\* the text has no white space at either end and none inside
NoWhiteSpace(s) == \A i \in 1..Len(s) : s[i] # " "

(***************************************************************************)
(* C18: parseHexOpcode returns a value exactly when the input, with its    *)
(* leading and trailing white space stripped, is an optional 0x or 0X      *)
(* followed by 1 to 4 hex digits, and the value is the base-16 value of    *)
(* those digits; for every other input it returns null.                    *)
(***************************************************************************)
C18_ParseHexOpcodeAccepts ==
    cpc = "opcode" =>
        LET digits == StripPrefix(Trim(cdata))
        IN  cres = IF IsHexDigits(digits) THEN ParseIntHex(digits)
                   ELSE NullOpcode

\* the part of C18 that the code keeps: texts without white space
C18_Holds_WithoutWhiteSpace ==
    (cpc = "opcode" /\ NoWhiteSpace(cdata)) =>
        LET digits == StripPrefix(cdata)
        IN  /\ cres = IF IsHexDigits(digits) THEN ParseIntHex(digits)
                      ELSE NullOpcode
            /\ cres \in {NullOpcode} \cup 0..65535

\* " 0xFa": white space before the prefix, the text is turned away
C18_Reach_SpaceBeforePrefixNull ==
    /\ cpc = "opcode"
    /\ cdata = <<" ", "0", "x", "F", "a">>
    /\ cres = NullOpcode

\* "0x Fa": white space between the prefix and the digits, the text is taken
C18_Reach_SpaceAfterPrefixValue ==
    /\ cpc = "opcode"
    /\ cdata = <<"0", "x", " ", "F", "a">>
    /\ cres = 250

C18_Reach_PrefixedFourDigits ==
    /\ cpc = "opcode"
    /\ cdata = <<"0", "X", "F", "F", "a", "0">>
    /\ cres = 65440

C18_Reach_FiveDigitsNull ==
    /\ cpc = "opcode"
    /\ cdata = <<"F", "F", "F", "F", "F">>
    /\ cres = NullOpcode

C18_Reach_BarePrefixNull ==
    cpc = "opcode" /\ cdata = <<"0", "x">> /\ cres = NullOpcode

C18_Reach_TrimmedDigits ==
    /\ cpc = "opcode"
    /\ cdata = <<" ", "a", "0", " ">>
    /\ cres = 160

(***************************************************************************)
(* src/lib/mtp-utils.ts: formatOpcode                                      *)
(***************************************************************************)
LowerHexDigits == <<"0", "1", "2", "3", "4", "5", "6", "7", "8", "9",
                    "a", "b", "c", "d", "e", "f">>

\* Number.prototype.toString(16) of a non-negative integer: lower-case
\* digits, no leading zero
RECURSIVE ToString16(_)
ToString16(n) ==
    IF n < 16 THEN <<LowerHexDigits[n + 1]>>
    ELSE ToString16(n \div 16) \o <<LowerHexDigits[(n % 16) + 1]>>

\* String.prototype.toUpperCase
ToUpperCaseText(s) == [i \in 1..Len(s) |-> ToUpperCase(s[i])]

\* a padding that adds nothing
PadStartNone(s, targetLength, c) == s

\* String.prototype.padStart(targetLength, c) with a one-character c
PadStart(s, targetLength, c) ==
    IF Len(s) >= targetLength THEN s
    ELSE [i \in 1..(targetLength - Len(s)) |-> c] \o s

\* `0x${code.toString(16).toUpperCase().padStart(4, '0')}`
formatOpcode(code) ==
    <<"0", "x">> \o PadStart(ToUpperCaseText(ToString16(code)), 4, "0")

(***************************************************************************)
(* The format specification: format an opcode, then parse the text back    *)
(***************************************************************************)
MaxOpcode == 65535

FormatInit ==
    /\ cpc = "code"
    /\ \E n \in 0..MaxOpcode : cdata = [code |-> n, text |-> <<>>]
    /\ cres = NullOpcode
    /\ NativeInit
    /\ HookIdle

\* const text = formatOpcode(code)
FormatCode ==
    /\ cpc = "code"
    /\ cdata' = [cdata EXCEPT !.text = formatOpcode(cdata.code)]
    /\ cpc' = "formatted"
    /\ UNCHANGED <<cres, nativeVars, hookVars>>

\* const back = parseHexOpcode(text)
FormatParseBack ==
    /\ cpc = "formatted"
    /\ cres' = parseHexOpcode(cdata.text)
    /\ cpc' = "parsedBack"
    /\ UNCHANGED <<cdata, nativeVars, hookVars>>

FormatNext == FormatCode \/ FormatParseBack

FormatSpec == FormatInit /\ [][FormatNext]_vars

(***************************************************************************)
(* C19: parseHexOpcode(formatOpcode(n)) = n for every n in 0..0xFFFF.      *)
(***************************************************************************)
C19_FormatParseRoundTrip ==
    cpc = "parsedBack" => cres = cdata.code

C19_Witness_PaddedRoundTrip ==
    /\ cpc = "parsedBack"
    /\ cdata.code = 171
    /\ cdata.text = <<"0", "x", "0", "0", "A", "B">>
    /\ cres = 171

C19_Reach_ZeroAndMax ==
    /\ cpc = "parsedBack"
    /\ cdata.code \in {0, 65535}
    /\ cres = cdata.code

(***************************************************************************)
(* C20: for every n in 0..0xFFFF formatOpcode(n) is six characters: 0x,    *)
(* then exactly four upper-case hex digits, zero-padded on the left, whose *)
(* base-16 value is n.                                                     *)
(***************************************************************************)
\* one of 0-9 A-F, and its value
IsUpperHexDigit(c) == \E i \in 1..16 : HexDigits[i] = c
UpperHexValue(c) == (CHOOSE i \in 1..16 : HexDigits[i] = c) - 1

C20_FormatIsFourUpperHexDigits ==
    cpc \in {"formatted", "parsedBack"} =>
        LET t == cdata.text
        IN  /\ Len(t) = 6
            /\ t[1] = "0" /\ t[2] = "x"
            /\ \A i \in 3..6 : IsUpperHexDigit(t[i])
            /\ 4096 * UpperHexValue(t[3]) + 256 * UpperHexValue(t[4])
                   + 16 * UpperHexValue(t[5]) + UpperHexValue(t[6]) = cdata.code

C20_Witness_FE01 ==
    /\ cpc = "formatted"
    /\ cdata.code = 65025
    /\ cdata.text = <<"0", "x", "F", "E", "0", "1">>

C20_Reach_Zero ==
    /\ cpc = "formatted"
    /\ cdata.code = 0
    /\ cdata.text = <<"0", "x", "0", "0", "0", "0">>

(***************************************************************************)
(* src/lib/mtp-utils.ts: the opcode tables and their lookups               *)
(***************************************************************************)
\* OPCODE_RANGES, in table order (start, end, name)
OPCODE_RANGES == <<
    [start |-> 4096,  end |-> 8191,  name |-> "Standard MTP Operations"],
    [start |-> 36864, end |-> 38911, name |-> "Vendor Extension Operations"],
    [start |-> 38912, end |-> 40959, name |-> "Microsoft MTP Extensions"],
    [start |-> 65024, end |-> 65279, name |-> "Samsung Vendor Commands"],
    [start |-> 65280, end |-> 65535, name |-> "Extended Vendor Commands"] >>

\* a test that leaves the last opcode of a range out
InRangeEndExcluded(code, range) == code >= range.start /\ code < range.end

\* range => code >= range.start && code <= range.end
InRange(code, range) == code >= range.start /\ code <= range.end

\* Array.prototype.find: the first element that passes, 0 for undefined
FindFirst(table, Passes(_)) ==
    IF \E i \in 1..Len(table) : Passes(table[i])
    THEN CHOOSE i \in 1..Len(table) :
             Passes(table[i]) /\ \A j \in 1..(i - 1) : ~Passes(table[j])
    ELSE 0

\* OPCODE_RANGES.find(...) || null, the range given by its name
getOpcodeRangeInfo(code) ==
    LET Passes(range) == InRange(code, range)
        i == FindFirst(OPCODE_RANGES, Passes)
    IN  IF i = 0 THEN "null" ELSE OPCODE_RANGES[i].name

\* PRESET_OPCODES, in table order (code, category)
PRESET_OPCODES == <<
    [code |-> 65025, category |-> "dangerous"],
    [code |-> 65027, category |-> "safe"],
    [code |-> 65029, category |-> "safe"],
    [code |-> 65031, category |-> "read-only"],
    [code |-> 65033, category |-> "read-only"],
    [code |-> 65035, category |-> "dangerous"] >>

\* a comparison of the low bytes only
PresetMatchesLowByte(p, code) == p.code % 256 = code % 256

\* p => p.code === code
PresetMatches(p, code) == p.code = code

\* preset?.category || 'unknown'
getOpcodeCategory(code) ==
    LET Passes(p) == PresetMatches(p, code)
        i == FindFirst(PRESET_OPCODES, Passes)
    IN  IF i = 0 THEN "unknown" ELSE PRESET_OPCODES[i].category

\* descriptions[code]: the text of the record, "" standing for undefined
Descriptions(code) ==
    CASE code = 8193 -> "OK - Operation successful"
      [] code = 8194 -> "General Error"
      [] code = 8195 -> "Session Not Open"
      [] code = 8196 -> "Invalid Transaction ID"
      [] code = 8197 -> "Operation Not Supported"
      [] code = 8198 -> "Parameter Not Supported"
      [] code = 8207 -> "Access Denied"
      [] code = 8215 -> "Unknown Vendor Code"
      [] OTHER -> ""

\* a fallback that keeps the lower-case digits
FallbackTextLowerCase(code) ==
    <<"Unknown Response (0x">> \o ToString16(code) \o <<")">>

\* `Unknown Response (0x${code.toString(16).toUpperCase()})`: the pieces of
\* the template, the digits one character each
FallbackText(code) ==
    <<"Unknown Response (0x">> \o ToUpperCaseText(ToString16(code)) \o <<")">>

\* descriptions[code] || fallback: an undefined or empty text is falsy
getResponseDescription(code) ==
    IF Descriptions(code) # "" THEN <<Descriptions(code)>> ELSE FallbackText(code)

(***************************************************************************)
(* The lookup specification: the three lookups applied to every code       *)
(***************************************************************************)
LookupInit ==
    /\ cpc = "code"
    /\ cdata \in 0..MaxOpcode
    /\ cres = [range |-> "", category |-> "", description |-> <<>>]
    /\ NativeInit
    /\ HookIdle

\* getOpcodeRangeInfo(code), getOpcodeCategory(code), getResponseDescription(code)
Lookup ==
    /\ cpc = "code"
    /\ cres' = [range |-> getOpcodeRangeInfo(cdata),
                category |-> getOpcodeCategory(cdata),
                description |-> getResponseDescription(cdata)]
    /\ cpc' = "looked"
    /\ UNCHANGED <<cdata, nativeVars, hookVars>>

LookupSpec == LookupInit /\ [][Lookup]_vars

(***************************************************************************)
(* C21: the opcode ranges have start <= end and are pairwise disjoint, so  *)
(* at most one range contains an opcode; getOpcodeRangeInfo returns that   *)
(* range, and null for an opcode that no range contains.                   *)
(***************************************************************************)
RangesWith(code) ==
    {i \in 1..Len(OPCODE_RANGES) :
        OPCODE_RANGES[i].start <= code /\ code <= OPCODE_RANGES[i].end}

C21_RangeLookupUnique ==
    /\ \A i \in 1..Len(OPCODE_RANGES) :
           /\ OPCODE_RANGES[i].start <= OPCODE_RANGES[i].end
           /\ \A j \in 1..Len(OPCODE_RANGES) :
                  i # j => \/ OPCODE_RANGES[i].end < OPCODE_RANGES[j].start
                           \/ OPCODE_RANGES[j].end < OPCODE_RANGES[i].start
    /\ cpc = "looked" =>
           /\ Cardinality(RangesWith(cdata)) <= 1
           /\ \A i \in RangesWith(cdata) : cres.range = OPCODE_RANGES[i].name
           /\ RangesWith(cdata) = {} => cres.range = "null"

C21_Witness_SamsungRange ==
    cpc = "looked" /\ cdata = 65025 /\ cres.range = "Samsung Vendor Commands"

C21_Reach_StandardRange ==
    cpc = "looked" /\ cdata = 4097 /\ cres.range = "Standard MTP Operations"

C21_Reach_NoRange ==
    cpc = "looked" /\ cdata = 1 /\ cres.range = "null"

C21_Reach_LastOfRange ==
    cpc = "looked" /\ cdata = 38911 /\ cres.range = "Vendor Extension Operations"

(***************************************************************************)
(* C22: getOpcodeCategory returns dangerous for 0xFE01 and 0xFE0B, safe    *)
(* for 0xFE03 and 0xFE05, read-only for 0xFE07 and 0xFE09, and unknown for *)
(* every other opcode; the preset table has at most one entry per opcode.  *)
(***************************************************************************)
C22_CategoryOfPresetElseUnknown ==
    /\ \A i, j \in 1..Len(PRESET_OPCODES) :
           PRESET_OPCODES[i].code = PRESET_OPCODES[j].code => i = j
    /\ cpc = "looked" =>
           cres.category =
               CASE cdata \in {65025, 65035} -> "dangerous"
                 [] cdata \in {65027, 65029} -> "safe"
                 [] cdata \in {65031, 65033} -> "read-only"
                 [] OTHER -> "unknown"

C22_Witness_ClearFrpDangerous ==
    cpc = "looked" /\ cdata = 65035 /\ cres.category = "dangerous"

C22_Reach_UnknownOpcode ==
    cpc = "looked" /\ cdata = 1 /\ cres.category = "unknown"

C22_Reach_ReadOnly ==
    cpc = "looked" /\ cdata = 65031 /\ cres.category = "read-only"

(***************************************************************************)
(* C23: getResponseDescription returns the table's text for 0x2001..0x2006,*)
(* 0x200F and 0x2017, and for every other code a text made of Unknown      *)
(* Response and the code in upper-case hex; the text is never empty.       *)
(***************************************************************************)
DescribedCodes == {8193, 8194, 8195, 8196, 8197, 8198, 8207, 8215}

C23_DescriptionOrHexFallback ==
    cpc = "looked" =>
        LET d == cres.description
        IN  /\ d # <<>> /\ \A i \in 1..Len(d) : d[i] # ""
            /\ cdata \in DescribedCodes =>
                   d = <<Descriptions(cdata)>> /\ d[1] # "Unknown Response (0x"
            /\ cdata \notin DescribedCodes =>
                   /\ Len(d) >= 3
                   /\ d[1] = "Unknown Response (0x"
                   /\ d[Len(d)] = ")"
                   /\ \A i \in 2..(Len(d) - 1) : IsUpperHexDigit(d[i])
                   /\ ParseIntHex(SubSeq(d, 2, Len(d) - 1)) = cdata

C23_Witness_UnknownCodeFallback ==
    /\ cpc = "looked"
    /\ cdata = 39321
    /\ cres.description = <<"Unknown Response (0x", "9", "9", "9", "9", ")">>

C23_Reach_OkDescribed ==
    cpc = "looked" /\ cdata = 8193
        /\ cres.description = <<"OK - Operation successful">>

C23_Reach_UndescribedResponseCode ==
    /\ cpc = "looked"
    /\ cdata = 8202
    /\ cres.description = <<"Unknown Response (0x", "2", "0", "0", "A", ")">>

(***************************************************************************)
(* C24: in each sendMtpCommand call the OUT write comes first and at most  *)
(* one IN read of at most 512 bytes is issued: exactly one when the write  *)
(* returned a non-negative result and an IN endpoint is bound, none when   *)
(* the write failed or no IN endpoint is bound.                            *)
(***************************************************************************)
RESPONSE_BUFFER_SIZE == 512

C24_OneReadAfterWrite ==
    /\ nmL.writes <= 1
    /\ nmL.reads <= 1
    /\ nmL.reads = 1 =>
           /\ nmL.writes = 1 /\ nmL.wrote >= 0
           /\ nmL.inEndpoint # 0
           /\ Len(nmL.readBuf) <= RESPONSE_BUFFER_SIZE
    /\ SendSettled =>
           /\ (nmL.writes = 1 /\ nmL.wrote >= 0 /\ bulkInEndpoint # 0) =>
                  nmL.reads = 1
           /\ (nmL.writes = 0 \/ nmL.wrote < 0 \/ nmL.inEndpoint = 0) =>
                  nmL.reads = 0

C24_Witness_WriteThenOneRead ==
    /\ SendSettled
    /\ nmL.writes = 1 /\ nmL.wrote > 0
    /\ bulkInEndpoint # 0
    /\ nmL.reads = 1
    /\ Len(nmL.readBuf) = 12

C24_Reach_FailedWriteNoRead ==
    /\ SendSettled
    /\ nmL.writes = 1 /\ nmL.wrote < 0
    /\ bulkInEndpoint # 0
    /\ nmL.reads = 0

C24_Reach_NoInEndpointNoRead ==
    /\ SendSettled
    /\ nmL.writes = 1 /\ nmL.wrote > 0
    /\ nmL.inEndpoint = 0 /\ bulkInEndpoint = 0 /\ bulkOutEndpoint # 0
    /\ nmL.reads = 0

C24_Reach_EmptyWriteStillReads ==
    SendSettled /\ nmL.writes = 1 /\ nmL.wrote = 0 /\ nmL.reads = 1

(***************************************************************************)
(* use-usb-device.ts lines 100-165: the device list, its attach and detach *)
(* listeners and refreshDevices, with the host plugging devices            *)
(***************************************************************************)
MaxEvents == 2
MaxScans == 1
ListDevices == {1, 2}

\* sendDeviceEvent(name, deviceToMap(it)), UsbMtpModule.kt lines 91, 106
DeviceEvent(name, d) == [name |-> name, deviceId |-> d]

\* what the host and the native module do outside the list layer: nothing
\* is bound, so the detach receiver's currentDevice test fails (line 103)
ListHostFrame ==
    UNCHANGED <<granted, connDev, connLive, bindingVars, transactionId,
                threadVars, historyVars, codecVars, permVars>>

\* what the list's own steps leave alone in the hook
ListHookFrame ==
    UNCHANGED <<mounted, isNativeAvailable, isRequestingPermission, isSending,
                commandLog, manualOpcode, selectedPreset, calls, effectDevice>>

\* a device is plugged: ACTION_USB_DEVICE_ATTACHED, lines 84-92
ListAttach(d) ==
    /\ d \notin attached
    /\ Len(deviceEvents) < MaxEvents
    /\ attached' = attached \cup {d}
    /\ deviceEvents' = Append(deviceEvents, DeviceEvent("onDeviceAttached", d))
    /\ UNCHANGED <<availableDevices, scans, device, hasPermission, isConnected>>
    /\ ListHostFrame
    /\ ListHookFrame

\* a device is unplugged: ACTION_USB_DEVICE_DETACHED, lines 94-107
ListDetach(d) ==
    /\ d \in attached
    /\ Len(deviceEvents) < MaxEvents
    /\ attached' = attached \ {d}
    /\ deviceEvents' = Append(deviceEvents, DeviceEvent("onDeviceDetached", d))
    /\ UNCHANGED <<availableDevices, scans, device, hasPermission, isConnected>>
    /\ ListHostFrame
    /\ ListHookFrame

\* a check that finds no device listed
AlreadyListedNever(prev, d) == FALSE

\* prev.some(d => d.deviceId === newDevice.deviceId)
AlreadyListed(prev, d) == \E i \in 1..Len(prev) : prev[i] = d

\* prev.filter(d => d.deviceId !== deviceInfo.deviceId)
WithoutDevice(prev, d) == SelectSeq(prev, LAMBDA x : x # d)

\* the onDeviceAttached listener, lines 117-128
OnDeviceAttached(d) ==
    /\ availableDevices' =
           IF ~mounted \/ AlreadyListed(availableDevices, d)
           THEN availableDevices
           ELSE Append(availableDevices, d)
    /\ UNCHANGED <<device, isConnected, hasPermission>>

\* device?.deviceId === deviceInfo.deviceId, with the device of the render
\* in which the effect ran: the effect's dependencies are [isNativeAvailable]
DetachedIsCurrent(d) == effectDevice # 0 /\ effectDevice = d

\* the onDeviceDetached listener, lines 130-141
OnDeviceDetached(d) ==
    /\ availableDevices' =
           IF ~mounted THEN availableDevices
           ELSE WithoutDevice(availableDevices, d)
    /\ IF mounted /\ DetachedIsCurrent(d)
       THEN /\ device' = 0
            /\ isConnected' = FALSE
            /\ hasPermission' = FALSE
       ELSE UNCHANGED <<device, isConnected, hasPermission>>

\* the event emitter calls the listener of the oldest event
HandleDeviceEvent ==
    /\ NoTick
    /\ deviceEvents # <<>>
    /\ deviceEvents' = Tail(deviceEvents)
    /\ IF Head(deviceEvents).name = "onDeviceAttached"
       THEN OnDeviceAttached(Head(deviceEvents).deviceId)
       ELSE OnDeviceDetached(Head(deviceEvents).deviceId)
    /\ UNCHANGED <<attached, scans>>
    /\ ListHostFrame
    /\ ListHookFrame

\* the orders in which usbManager.deviceList may be iterated
Listings(ds) ==
    {l \in UNION {[1..n -> ds] : n \in {Cardinality(ds)}} :
        \A i, j \in 1..Len(l) : l[i] = l[j] => i = j}

\* refreshDevices, lines 150-153, and getConnectedDevices in the module
\* (UsbMtpModule.kt lines 153-168): one map per device of deviceList
RefreshDevices ==
    /\ Shown
    /\ isNativeAvailable
    /\ Len(scans) < MaxScans
    /\ \E l \in Listings(attached) : scans' = Append(scans, l)
    /\ UNCHANGED <<attached, availableDevices, deviceEvents, device,
                   hasPermission, isConnected>>
    /\ ListHostFrame
    /\ ListHookFrame

\* getConnectedDevices resolved: setAvailableDevices(devices.map(...)),
\* lines 154-157
RefreshSettles ==
    /\ NoTick
    /\ scans # <<>>
    /\ scans' = Tail(scans)
    /\ availableDevices' = SetState(availableDevices, Head(scans))
    /\ UNCHANGED <<attached, deviceEvents, device, hasPermission, isConnected>>
    /\ ListHostFrame
    /\ ListHookFrame

\* a row of the device list is tapped, index.tsx lines 186-194
SelectListed(d) == AlreadyListed(availableDevices, d) /\ SelectDevice(d)

\* the hook as mounted, nothing plugged yet; the scan of line 114 is the
\* first RefreshDevices
ListInit ==
    /\ CodecIdle
    /\ NativeInit
    /\ HookIdle

ListNext ==
    \/ \E d \in ListDevices : ListAttach(d)
    \/ \E d \in ListDevices : ListDetach(d)
    \/ HandleDeviceEvent
    \/ RefreshDevices
    \/ RefreshSettles
    \/ \E d \in ListDevices : SelectListed(d)
    \/ PressRequestPermission
    \/ PressConnect
    \/ Unmount
    \/ \E c \in CallIds, outcome \in {"true", "false", "reject"} :
           HasPermissionSettles(c, outcome)
    \/ \E c \in CallIds, outcome \in {"true", "false", "reject"} :
           RequestPermissionSettles(c, outcome)
    \/ \E c \in CallIds, outcome \in {"resolve", "reject"} :
           OpenConnectionSettles(c, outcome)

ListSpec == ListInit /\ [][ListNext]_vars

\* the listeners handle the oldest event, a detach of device d
DetachHandled(d) ==
    /\ deviceEvents # <<>>
    /\ deviceEvents' = Tail(deviceEvents)
    /\ Head(deviceEvents) = DeviceEvent("onDeviceDetached", d)
    /\ mounted

\* the listeners handle the oldest event, an attach of device d
AttachHandled(d) ==
    /\ deviceEvents # <<>>
    /\ deviceEvents' = Tail(deviceEvents)
    /\ Head(deviceEvents) = DeviceEvent("onDeviceAttached", d)
    /\ mounted

(***************************************************************************)
(* C25: when the detach event of the device selected in the hook is        *)
(* handled, the hook sets device to null and isConnected and hasPermission *)
(* to false, whatever selectDevice, requestPermission and connect did      *)
(* before.                                                                 *)
(***************************************************************************)
C25_DetachResetsSelection ==
    [][\A d \in ListDevices :
          (DetachHandled(d) /\ device = d) =>
              (device' = 0 /\ ~isConnected' /\ ~hasPermission')]_vars

\* the hook still reports a connection to device 1 after device 1 was
\* unplugged and its detach event was handled
C25_Reach_ConnectedAfterDetach ==
    /\ mounted
    /\ device = 1 /\ isConnected
    /\ 1 \notin attached
    /\ deviceEvents = <<>>
    /\ ~AlreadyListed(availableDevices, 1)

(***************************************************************************)
(* C30: availableDevices never holds two entries with the same deviceId:   *)
(* an attach event for a listed deviceId leaves the list as it is, a       *)
(* detach event removes every entry with its deviceId, a refresh stores    *)
(* the scanned list.                                                       *)
(***************************************************************************)
NoDuplicates(l) == \A i, j \in 1..Len(l) : l[i] = l[j] => i = j

C30_DeviceListHasNoDuplicates ==
    [][/\ NoDuplicates(availableDevices')
       /\ \A d \in ListDevices :
              /\ (AttachHandled(d) /\ AlreadyListed(availableDevices, d)) =>
                     availableDevices' = availableDevices
              /\ (AttachHandled(d) /\ ~AlreadyListed(availableDevices, d)) =>
                     availableDevices' = Append(availableDevices, d)
              /\ DetachHandled(d) => ~AlreadyListed(availableDevices', d)]_vars

C30_Reach_BothListed ==
    /\ mounted
    /\ availableDevices = <<2, 1>>
    /\ deviceEvents = <<>>
    /\ attached = {1, 2}
    /\ scans = <<>>

\* an attach event for a device that a scan has listed is next to be handled
C30_Witness_AttachEventForListed ==
    /\ mounted /\ NoTick
    /\ AlreadyListed(availableDevices, 1)
    /\ deviceEvents # <<>>
    /\ Head(deviceEvents) = DeviceEvent("onDeviceAttached", 1)

C30_Reach_DetachRemoves ==
    /\ mounted
    /\ AlreadyListed(availableDevices, 1)
    /\ deviceEvents # <<>>
    /\ Head(deviceEvents) = DeviceEvent("onDeviceDetached", 1)

(***************************************************************************)
(* UsbMtpModule.kt lines 49-76 and 170-206: requestPermission on the       *)
(* native-modules thread, the permission dialog, usbPermissionReceiver on  *)
(* the main thread                                                         *)
(***************************************************************************)
PermDevices == {1, 2}

\* the state of the hook and the screen
jsVars == <<mounted, isNativeAvailable, device, hasPermission,
            isRequestingPermission, isConnected, isSending, commandLog,
            manualOpcode, selectedPreset, calls>>

\* what the permission steps leave alone
PermFrame ==
    UNCHANGED <<connDev, connLive, bindingVars, transactionId, mainDev,
                closePc, invalidated, historyVars, codecVars, jsVars, listVars>>

\* the promise of the requestPermission call that runs now: promises are
\* numbered in call order and the thread runs one call at a time
RunningPromise ==
    CHOOSE p \in PromiseIds :
        promiseState[p] # "none" /\ \A q \in PromiseIds : q > p => promiseState[q] = "none"

\* promise.resolve / promise.reject: the first call settles the promise
Settle(ps, p, how) == [ps EXCEPT ![p] = IF ps[p] = "pending" THEN how ELSE ps[p]]

\* a device is plugged
PermAttach(d) ==
    /\ d \notin attached
    /\ attached' = attached \cup {d}
    /\ UNCHANGED <<granted, nmPc, nmL, mainPc, permVars>>
    /\ PermFrame

\* JavaScript calls requestPermission(deviceId): a promise is made and the
\* method starts on the native-modules thread (line 171)
PermEnter(d) ==
    /\ nmPc = "idle"
    /\ \E p \in PromiseIds :
          /\ promiseState[p] = "none"
          /\ \A q \in PromiseIds : q < p => promiseState[q] # "none"
          /\ promiseState' = [promiseState EXCEPT ![p] = "pending"]
    /\ nmPc' = "perm_find"
    /\ nmL' = [NmIdle EXCEPT !.deviceId = d]
    /\ UNCHANGED <<attached, granted, mainPc, permissionPromise,
                   promiseSettles, permDialogs, permBroadcasts>>
    /\ PermFrame

\* lines 173-182: DEVICE_NOT_FOUND, or resolve(true) with the permission held
PermFind ==
    /\ nmPc = "perm_find"
    /\ IF nmL.deviceId \notin attached
       THEN /\ promiseState' = Settle(promiseState, RunningPromise, "reject")
            /\ promiseSettles' = [promiseSettles EXCEPT ![RunningPromise] = @ + 1]
            /\ nmPc' = "idle" /\ nmL' = NmIdle
       ELSE IF nmL.deviceId \in granted
       THEN /\ promiseState' = Settle(promiseState, RunningPromise, "true")
            /\ promiseSettles' = [promiseSettles EXCEPT ![RunningPromise] = @ + 1]
            /\ nmPc' = "idle" /\ nmL' = NmIdle
       ELSE /\ nmPc' = "perm_store"
            /\ UNCHANGED <<promiseState, promiseSettles, nmL>>
    /\ UNCHANGED <<attached, granted, mainPc, permissionPromise, permDialogs,
                   permBroadcasts>>
    /\ PermFrame

\* permissionPromise = promise, line 184: whatever the field held is gone
PermStore ==
    /\ nmPc = "perm_store"
    /\ permissionPromise' = RunningPromise
    /\ nmPc' = "perm_request"
    /\ UNCHANGED <<attached, granted, nmL, mainPc, promiseState,
                   promiseSettles, permDialogs, permBroadcasts>>
    /\ PermFrame

\* lines 186-201: PendingIntent.getBroadcast and usbManager.requestPermission
\* put a dialog on the screen, or throw, and the catch block rejects with
\* PERMISSION_ERROR (lines 202-205)
PermRequest ==
    /\ nmPc = "perm_request"
    /\ \E threw \in BOOLEAN :
          IF threw
          THEN /\ promiseState' = Settle(promiseState, RunningPromise, "reject")
               /\ promiseSettles' = [promiseSettles EXCEPT ![RunningPromise] = @ + 1]
               /\ UNCHANGED permDialogs
          ELSE /\ permDialogs' = Append(permDialogs, nmL.deviceId)
               /\ UNCHANGED <<promiseState, promiseSettles>>
    /\ nmPc' = "idle"
    /\ nmL' = NmIdle
    /\ UNCHANGED <<attached, granted, mainPc, permissionPromise, permBroadcasts>>
    /\ PermFrame

\* the user answers the i-th dialog: the system sends ACTION_USB_PERMISSION
PermAnswer(i, ok) ==
    /\ i \in 1..Len(permDialogs)
    /\ permDialogs' = [j \in 1..(Len(permDialogs) - 1) |->
                          IF j < i THEN permDialogs[j] ELSE permDialogs[j + 1]]
    /\ permBroadcasts' = Append(permBroadcasts, ok)
    /\ granted' = IF ok THEN granted \cup {permDialogs[i]} ELSE granted
    /\ UNCHANGED <<attached, nmPc, nmL, mainPc, permissionPromise,
                   promiseState, promiseSettles>>
    /\ PermFrame

\* usbPermissionReceiver.onReceive, lines 64-71:
\* permissionPromise?.resolve(granted)
PermReceive ==
    /\ mainPc = "idle"
    /\ permBroadcasts # <<>>
    /\ permBroadcasts' = Tail(permBroadcasts)
    /\ IF permissionPromise # 0
       THEN /\ promiseState' =
                   Settle(promiseState, permissionPromise,
                          IF Head(permBroadcasts) THEN "true" ELSE "false")
            /\ promiseSettles' =
                   [promiseSettles EXCEPT ![permissionPromise] = @ + 1]
       ELSE UNCHANGED <<promiseState, promiseSettles>>
    /\ mainPc' = "perm_clear"
    /\ UNCHANGED <<attached, granted, nmPc, nmL, permissionPromise, permDialogs>>
    /\ PermFrame

\* permissionPromise = null, line 72
PermClear ==
    /\ mainPc = "perm_clear"
    /\ permissionPromise' = 0
    /\ mainPc' = "idle"
    /\ UNCHANGED <<attached, granted, nmPc, nmL, promiseState, promiseSettles,
                   permDialogs, permBroadcasts>>
    /\ PermFrame

PermInit == CodecIdle /\ NativeInit /\ HookIdle

PermNext ==
    \/ \E d \in PermDevices : PermAttach(d)
    \/ \E d \in PermDevices : PermEnter(d)
    \/ PermFind
    \/ PermStore
    \/ PermRequest
    \/ \E i \in 1..MaxRequests, ok \in BOOLEAN : PermAnswer(i, ok)
    \/ PermReceive
    \/ PermClear

PermissionSpec == PermInit /\ [][PermNext]_vars

\* every dialog is answered, every answer received, no method is running
PermQuiet ==
    /\ nmPc = "idle" /\ mainPc = "idle"
    /\ permDialogs = <<>> /\ permBroadcasts = <<>>

(***************************************************************************)
(* C26: once the user has answered the permission dialogs, the promise of  *)
(* every requestPermission call is settled, also when a second call was    *)
(* made while an earlier one was pending; no promise is left unsettled and *)
(* none is settled twice.                                                  *)
(***************************************************************************)
C26_PermissionPromisesSettleOnce ==
    /\ \A p \in PromiseIds : promiseSettles[p] <= 1
    /\ PermQuiet => \A p \in PromiseIds : promiseState[p] # "pending"

\* the part of C26 that holds: a call made alone is settled exactly once
C26_Holds_SingleRequest ==
    (PermQuiet /\ promiseState[2] = "none" /\ promiseState[1] # "none") =>
        promiseState[1] # "pending" /\ promiseSettles[1] = 1

\* two calls, both dialogs answered and received, the first promise pending
C26_Reach_FirstPromiseDropped ==
    /\ PermQuiet
    /\ promiseState[1] = "pending" /\ promiseSettles[1] = 0
    /\ promiseState[2] \in {"true", "false"}
    /\ promiseState[3] = "none"

\* resolve called on a promise that the catch block had rejected
C26_Reach_SettledTwice ==
    \E p \in PromiseIds : promiseSettles[p] = 2

C26_Reach_AnsweredAlone ==
    /\ PermQuiet
    /\ promiseState[1] = "false" /\ promiseSettles[1] = 1
    /\ promiseState[2] = "none"

(***************************************************************************)
(* C27: a rejected openConnection leaves no half-bound module: with        *)
(* DEVICE_NOT_FOUND or NO_PERMISSION the binding and the transaction       *)
(* counter are as before the call; with CONNECTION_FAILED,                 *)
(* NO_MTP_INTERFACE or CLAIM_FAILED all five fields are null and the       *)
(* connection the call opened is closed.                                   *)
(***************************************************************************)
\* this step rejects the promise of openConnection
OpenRejects ==
    /\ nmPc # "settled"
    /\ nmPc' = "settled"
    /\ nmL'.result.op = "open"
    /\ nmL'.result.kind = "reject"

C27_FailedOpenNotHalfBound ==
    [][OpenRejects =>
          IF nmL'.result.code \in {"DEVICE_NOT_FOUND", "NO_PERMISSION"}
          THEN UNCHANGED <<bindingVars, transactionId, connDev>>
          ELSE /\ nmL'.result.code \in
                      {"CONNECTION_FAILED", "NO_MTP_INTERFACE", "CLAIM_FAILED"}
               /\ Unbound'
               /\ nmL'.connection # 0 => connDev'[nmL'.connection] = 0]_vars

\* a bound module, a new open that fails to claim: unbound, both closed
C27_Witness_ClaimFailedUnbound ==
    /\ nmPc = "settled"
    /\ nmL.result = Rejected("open", "CLAIM_FAILED")
    /\ nmL.connection # 0
    /\ everOpened
    /\ Unbound
    /\ \A c \in ConnIds : connDev[c] = 0

C27_Reach_NotFoundKeepsBinding ==
    /\ nmPc = "settled"
    /\ nmL.result = Rejected("open", "DEVICE_NOT_FOUND")
    /\ currentDevice # 0 /\ currentConnection # 0 /\ bulkOutEndpoint # 0
    /\ connDev[currentConnection] = currentDevice
    /\ transactionId = 2

C27_Reach_NoPermissionKeepsBinding ==
    /\ nmPc = "settled"
    /\ nmL.result = Rejected("open", "NO_PERMISSION")
    /\ currentDevice # 0 /\ currentConnection # 0 /\ bulkOutEndpoint # 0

C27_Reach_ConnectionFailedUnbound ==
    /\ nmPc = "settled"
    /\ nmL.result = Rejected("open", "CONNECTION_FAILED")
    /\ everOpened
    /\ Unbound

C27_Reach_NoInterfaceUnbound ==
    /\ nmPc = "settled"
    /\ nmL.result = Rejected("open", "NO_MTP_INTERFACE")
    /\ nmL.connection # 0
    /\ Unbound

(***************************************************************************)
(* The two command builders side by side: UsbMtpModule.kt lines 502-527    *)
(* and mtp-utils.ts lines 231-262 on the same arguments                    *)
(***************************************************************************)
EquivTxIds == {1, 2, 65536, 2147483647}
EquivParamValues == {0, 305419896, 2147483647}
EquivParams == UNION {[1..n -> EquivParamValues] : n \in 0..MaxParams}

\* the JavaScript number n, 0 <= n < 2^31, as setUint32 stores it
TsNumber(n) == ToU32(n)

EquivInit ==
    /\ cpc = "args"
    /\ \E opcode \in BuildOpcodes, txId \in EquivTxIds, params \in EquivParams :
           cdata = [opcode |-> opcode, transactionId |-> txId,
                    params |-> params, kt |-> <<>>, ts |-> <<>>]
    /\ cres = NoContainer
    /\ NativeInit
    /\ HookIdle

\* the module builds the packet (UsbMtpModule.kt line 366)
EquivBuildKt ==
    /\ cpc = "args"
    /\ cdata' = [cdata EXCEPT !.kt =
                    KtBuildMtpCommandPacket(cdata.opcode, cdata.transactionId,
                                            cdata.params)]
    /\ cpc' = "kt"
    /\ UNCHANGED <<cres, nativeVars, hookVars>>

\* the TypeScript builder on the same arguments
EquivBuildTs ==
    /\ cpc = "kt"
    /\ cdata' = [cdata EXCEPT !.ts =
                    buildMtpCommandPacket(
                        cdata.opcode, TsNumber(cdata.transactionId),
                        [i \in 1..Len(cdata.params) |-> TsNumber(cdata.params[i])])]
    /\ cpc' = "both"
    /\ UNCHANGED <<cres, nativeVars, hookVars>>

EquivSpec == EquivInit /\ [][EquivBuildKt \/ EquivBuildTs]_vars

(***************************************************************************)
(* C28: for every opcode in 0..0xFFFF, transaction id in 1..2^31-1 and     *)
(* list of 0..5 parameters in 0..2^31-1, the Kotlin and the TypeScript     *)
(* buildMtpCommandPacket produce the same bytes.                           *)
(***************************************************************************)
C28_BuildersAgree ==
    cpc = "both" => cdata.kt = cdata.ts

C28_Witness_HighOpcodeFiveParams ==
    /\ cpc = "both"
    /\ cdata.opcode = 65025
    /\ cdata.transactionId = 2147483647
    /\ Len(cdata.params) = 5
    /\ Len(cdata.kt) = 32
    /\ cdata.kt = cdata.ts
    /\ cdata.kt[7] = 1 /\ cdata.kt[8] = 254

C28_Reach_NoParams ==
    cpc = "both" /\ cdata.params = <<>> /\ Len(cdata.ts) = 12 /\ cdata.kt = cdata.ts

(***************************************************************************)
(* C29: between method calls currentDevice, currentConnection,             *)
(* currentInterface and bulkOutEndpoint are all null or all non-null, and  *)
(* bulkInEndpoint is non-null only when they are; no sequence of           *)
(* openConnection, closeConnection, sendMtpCommand and detach events       *)
(* leaves the module partially bound.                                      *)
(***************************************************************************)
\* no @ReactMethod and no receiver is running
BetweenCalls ==
    /\ nmPc = "idle"
    /\ mainPc = "idle"
    /\ closePc["nm"] = 0 /\ closePc["main"] = 0

C29_BindingAllOrNone ==
    BetweenCalls =>
        /\ \/ /\ currentDevice = 0 /\ currentConnection = 0
              /\ currentInterface = 0 /\ bulkOutEndpoint = 0
           \/ /\ currentDevice # 0 /\ currentConnection # 0
              /\ currentInterface # 0 /\ bulkOutEndpoint # 0
        /\ bulkInEndpoint # 0 => currentDevice # 0

\* the receiver's close has returned, the open has resolved: the device
\* field is null, connection and endpoints are bound
C29_Reach_ConnectionWithoutDevice ==
    /\ BetweenCalls
    /\ currentDevice = 0
    /\ currentConnection # 0 /\ bulkOutEndpoint # 0

C29_Reach_BoundWithoutInEndpoint ==
    /\ BetweenCalls
    /\ currentDevice # 0 /\ currentConnection # 0
    /\ currentInterface # 0 /\ bulkOutEndpoint # 0
    /\ bulkInEndpoint = 0
    /\ connDev[currentConnection] = currentDevice

C29_Reach_UnboundAfterClose ==
    BetweenCalls /\ everOpened /\ closeRan /\ Unbound

====
